---------------------------- MODULE Spec2Model ----------------------------
(***************************************************************************)
(* A model of the release automation scripts of release-github-actions.    *)
(* Each script is a single linear run against a remote service (GitHub or  *)
(* Jira).  The scripts share no state, so each script has its own          *)
(* variables and its own specification; the variables of the other        *)
(* scripts stay idle in it.                                                *)
(*                                                                         *)
(* Conventions.                                                            *)
(*   - A Python value that may be None is a set with at most one element:  *)
(*     None is {} and a value v is {v}.                                    *)
(*   - A Python dict whose keys may be missing is a function whose DOMAIN  *)
(*     holds the keys that are present.                                    *)
(*   - A Python str that the code takes apart is a sequence of             *)
(*     one-character strings.                                              *)
(***************************************************************************)
EXTENDS Integers, Sequences, FiniteSets, TLC

VARIABLES
    \* lock-branch/lock_branch.py: build_protection_payload on its own
    current_protection,   \* the record given to build_protection_payload
    lock,                 \* the requested lock value
    payload,              \* None before the call, the returned payload after it
    \* lock-branch/lock_branch.py: runs of main() on one branch
    remote,               \* the branch's protection record on GitHub (None: no record)
    wire,                 \* the requests GitHub has answered, in order
    lb_pc,                \* per run: where main() stands
    lb_token,             \* per run: whether GITHUB_TOKEN is set and not empty
    freeze_arg,           \* per run: the --freeze argument as given
    freeze,               \* per run: False before parse_bool, then what it returned
    lb_read,              \* per run: what get_branch_protection returned
    previous_locked,      \* per run: None before the read, then is_branch_locked
    lb_stdout,            \* per run: the lines printed to standard output
    lb_exit,              \* per run: None while running, then the exit code
    \* create-jira-version/create_jira_version.py: one run of main()
    cv_version_name,      \* --version-name
    cv_creds,             \* whether JIRA_USER and JIRA_TOKEN are both set
    cv_versions,          \* the versions of the project in Jira, in list order
    cv_pc,                \* where main() stands
    cv_calls,             \* the Jira calls made, in order
    cv_stderr,            \* the errors written to standard error
    cv_stdout,            \* the lines printed to standard output
    cv_exit,              \* None while running, then the exit code
    \* release-jira-version/release_and_create_jira_version.py: one run of main()
    rc_release_name,      \* --jira-release-name
    rc_new_version_name,  \* --new-version-name, empty when not given
    rc_creds,             \* whether JIRA_USER and JIRA_TOKEN are both set
    rc_versions,          \* the versions of the project in Jira, in list order
    rc_pc,                \* where main() stands
    rc_version_to_release,\* None, or the position of the version found
    rc_new_name,          \* None, or the name chosen for the next version
    rc_calls,             \* the Jira calls made, in order
    rc_stderr,            \* the errors and warnings written to standard error
    rc_stdout,            \* the lines printed to standard output
    rc_exit,              \* None while running, then the exit code
    \* get-jira-release-notes/get_jira_release_notes.py and
    \* publish-github-release/fetch_jira_release_notes.py: the formatters
    nt_issues,            \* the issues found for the release, in query order
    nt_jira_url,          \* the Jira server URL
    nt_project_name,      \* the project's name
    nt_version,           \* the version's name
    nt_category_order,    \* the issue types to include, in order
    markdown_notes,       \* None, or what format_notes_as_markdown returned
    jira_markup_notes,    \* None, or what format_notes_as_jira_markup returned
    fetch_markdown_notes, \* None, or what the fetch script's formatter returned
    \* update-integration-tickets/update_integration_tickets.py: one run of main()
    it_creds,             \* whether JIRA_USER and JIRA_TOKEN are both set
    it_links,             \* the links of the release ticket in Jira, in list order
    it_fix_versions,      \* --sqs-fix-versions, None when not given
    it_pc,                \* where main() stands
    it_release_issue,     \* None, or the release ticket as fetched
    sqs_ticket_key,       \* None, or the key found for SQS_PROJECT_KEY
    sc_ticket_key,        \* None, or the key found for SC_PROJECT_KEY
    it_calls,             \* the Jira calls made, in order
    it_stderr,            \* the errors and warnings written to standard error
    it_stdout,            \* the lines printed to standard output
    it_exit,              \* None while running, then the exit code
    \* update-release-ticket-status/update_release_ticket.py: one run of main()
    ut_creds,             \* whether JIRA_USER and JIRA_TOKEN are both set
    ut_status,            \* --status
    ut_assignee,          \* --assignee, None when not given
    ut_ticket,            \* the ticket in Jira
    ut_pc,                \* where main() stands
    ut_calls,             \* the Jira calls made, in order
    ut_stdout,            \* the lines printed to standard output
    ut_stderr,            \* the errors written to standard error, line by line
    ut_exit,              \* None while running, then the exit code
    \* release-jira-version/release_jira_version.py: one run of main()
    rj_version_name,      \* --version-name
    rj_creds,             \* whether JIRA_USER and JIRA_TOKEN are both set
    rj_versions,          \* project.versions in Jira
    rj_pc,                \* where main() stands; "raised" after an uncaught exception
    rj_version_to_release,  \* the position of the version found, None before
    rj_calls,             \* the Jira calls made, in order
    rj_stderr,            \* the errors and warnings written to standard error
    rj_exit,              \* None while running, then the exit status
    \* create-jira-release-ticket/create_release_ticket.py: one run of main()
    cr_release_name,      \* --jira-release-name, "" when not given
    cr_creds,             \* whether JIRA_USER and JIRA_TOKEN are both set
    cr_versions,          \* the versions of the project in Jira
    cr_pc,                \* where main() stands
    cr_target_version,    \* None, or the version the lookup returned
    cr_calls,             \* the Jira calls made, in order
    cr_stderr,            \* the errors written to standard error
    cr_stdout,            \* the lines printed to standard output
    cr_exit,              \* None while running, then the exit code
    \* create-integration-ticket/create_integration_ticket.py: one run of main()
    ci_args,              \* --ticket-summary, --project-name, --release-version
    ci_creds,             \* whether JIRA_USER and JIRA_TOKEN are both set
    ci_issue_types,       \* the names of the project's issue types in Jira
    ci_pc,                \* where main() stands
    ci_summary,           \* None, or args.ticket_summary after its validation
    ci_issue_type,        \* None, or the issue type chosen
    ci_calls,             \* the Jira calls made, in order
    ci_stderr,            \* the errors and warnings written to standard error
    ci_stdout,            \* the lines printed to standard output
    ci_exit,              \* None while running, then the exit code
    \* lock-branch/notify_slack.py: one run of main()
    ns_channel,           \* --channel
    ns_freeze,            \* parse_bool(args.freeze)
    ns_token,             \* os.environ.get('SLACK_TOKEN')
    ns_pc,                \* where main() stands
    ns_calls,             \* the requests sent to Slack, in order
    ns_stderr,            \* the errors written to standard error
    ns_exit,              \* None while running, then the exit code
    \* publish-github-release/fetch_jira_release_notes.py: one run of main()
    fn_env,               \* JIRA_USER and JIRA_TOKEN of the environment
    fn_issues,            \* the issues of the release in Jira
    fn_pc,                \* where main() stands
    fn_calls,             \* the Jira calls made, in order
    fn_stderr,            \* the errors written to standard error
    fn_stdout,            \* the lines printed to standard output
    fn_exit,              \* None while running, then the exit code
    \* get-jira-release-notes/get_jira_release_notes.py: one run of main()
    gn_env,               \* JIRA_USER and JIRA_TOKEN of the environment
    gn_version_name,      \* --version-name
    gn_versions,          \* the versions of the project in Jira
    gn_issues,            \* the issues of the version in Jira
    gn_pc,                \* where main() stands
    gn_version_id,        \* None, or the id get_version_id returned
    gn_calls,             \* the Jira calls made, in order
    gn_stderr,            \* the errors written to standard error
    gn_stdout,            \* the lines printed to standard output
    gn_exit,              \* None while running, then the exit code
    \* tools/create_release_ticket.py: one run of main()
    tc_env,               \* JIRA_USER and JIRA_TOKEN of the environment
    tc_versions,          \* the versions of the project in Jira
    tc_pc,                \* where main() stands
    tc_target_version,    \* None, or the position of the version found
    tc_calls,             \* the Jira calls made, in order
    tc_stderr,            \* the errors written to standard error
    tc_stdout,            \* the lines printed to standard output
    tc_exit,              \* None while running, then the exit code
    \* .github/actions/create-jira-release-ticket/create_release_ticket.py: one run of main()
    ga_env,               \* JIRA_USER and JIRA_TOKEN of the environment
    ga_versions,          \* the versions of the project in Jira
    ga_pc,                \* where main() stands
    ga_target_version,    \* None, or the position of the version found
    ga_calls,             \* the Jira calls made, in order
    ga_stderr,            \* the errors written to standard error
    ga_stdout,            \* the lines printed to standard output
    ga_exit,              \* None while running, then the exit code
    \* lock-branch/utils.py: parse_bool on its own
    pb_value,             \* the argument given to parse_bool
    pb_result,            \* None before the call, the returned value after it
    \* every script that talks to Jira
    unexpected            \* the exceptions raised that are not a JIRAError, in order

payVars == <<current_protection, lock, payload>>

pbVars == <<pb_value, pb_result>>

lockVars == <<remote, wire, lb_pc, lb_token, freeze_arg, freeze, lb_read, previous_locked,
              lb_stdout, lb_exit>>

cvVars == <<cv_version_name, cv_creds, cv_versions, cv_pc, cv_calls, cv_stderr, cv_stdout,
            cv_exit>>

rcVars == <<rc_release_name, rc_new_version_name, rc_creds, rc_versions, rc_pc,
            rc_version_to_release, rc_new_name, rc_calls, rc_stderr, rc_stdout, rc_exit>>

ntVars == <<nt_issues, nt_jira_url, nt_project_name, nt_version, nt_category_order,
            markdown_notes, jira_markup_notes, fetch_markdown_notes>>

itVars == <<it_creds, it_links, it_fix_versions, it_pc, it_release_issue, sqs_ticket_key,
            sc_ticket_key, it_calls, it_stderr, it_stdout, it_exit>>

utVars == <<ut_creds, ut_status, ut_assignee, ut_ticket, ut_pc, ut_calls, ut_stdout,
            ut_stderr, ut_exit>>

rjVars == <<rj_version_name, rj_creds, rj_versions, rj_pc, rj_version_to_release, rj_calls,
            rj_stderr, rj_exit>>

crVars == <<cr_release_name, cr_creds, cr_versions, cr_pc, cr_target_version, cr_calls,
            cr_stderr, cr_stdout, cr_exit>>

ciVars == <<ci_args, ci_creds, ci_issue_types, ci_pc, ci_summary, ci_issue_type, ci_calls,
            ci_stderr, ci_stdout, ci_exit>>

nsVars == <<ns_channel, ns_freeze, ns_token, ns_pc, ns_calls, ns_stderr, ns_exit>>

fnVars == <<fn_env, fn_issues, fn_pc, fn_calls, fn_stderr, fn_stdout, fn_exit>>

gnVars == <<gn_env, gn_version_name, gn_versions, gn_issues, gn_pc, gn_version_id, gn_calls, gn_stderr, gn_stdout, gn_exit>>

tcVars == <<tc_env, tc_versions, tc_pc, tc_target_version, tc_calls, tc_stderr, tc_stdout, tc_exit>>

gaVars == <<ga_env, ga_versions, ga_pc, ga_target_version, ga_calls, ga_stderr, ga_stdout, ga_exit>>

vars == <<payVars, lockVars, cvVars, rcVars, ntVars, itVars, utVars, rjVars, crVars, ciVars, nsVars, fnVars, gnVars, tcVars, gaVars, pbVars, unexpected>>

\* the variables of the other scripts, which a script leaves alone
payPeers == <<lockVars, cvVars, rcVars, ntVars, itVars, utVars, rjVars, crVars, ciVars, nsVars, fnVars, gnVars, tcVars, gaVars, pbVars>>
lockPeers == <<payVars, cvVars, rcVars, ntVars, itVars, utVars, rjVars, crVars, ciVars, nsVars, fnVars, gnVars, tcVars, gaVars, pbVars>>
cvPeers == <<payVars, lockVars, rcVars, ntVars, itVars, utVars, rjVars, crVars, ciVars, nsVars, fnVars, gnVars, tcVars, gaVars, pbVars>>
rcPeers == <<payVars, lockVars, cvVars, ntVars, itVars, utVars, rjVars, crVars, ciVars, nsVars, fnVars, gnVars, tcVars, gaVars, pbVars>>
ntPeers == <<payVars, lockVars, cvVars, rcVars, itVars, utVars, rjVars, crVars, ciVars, nsVars, fnVars, gnVars, tcVars, gaVars, pbVars>>
itPeers == <<payVars, lockVars, cvVars, rcVars, ntVars, utVars, rjVars, crVars, ciVars, nsVars, fnVars, gnVars, tcVars, gaVars, pbVars>>
utPeers == <<payVars, lockVars, cvVars, rcVars, ntVars, itVars, rjVars, crVars, ciVars, nsVars, fnVars, gnVars, tcVars, gaVars, pbVars>>
rjPeers == <<payVars, lockVars, cvVars, rcVars, ntVars, itVars, utVars, crVars, ciVars, nsVars, fnVars, gnVars, tcVars, gaVars, pbVars>>
crPeers == <<payVars, lockVars, cvVars, rcVars, ntVars, itVars, utVars, rjVars, ciVars, nsVars, fnVars, gnVars, tcVars, gaVars, pbVars>>
ciPeers == <<payVars, lockVars, cvVars, rcVars, ntVars, itVars, utVars, rjVars, crVars, nsVars, fnVars, gnVars, tcVars, gaVars, pbVars>>
nsPeers == <<payVars, lockVars, cvVars, rcVars, ntVars, itVars, utVars, rjVars, crVars, ciVars, fnVars, gnVars, tcVars, gaVars, pbVars>>
fnPeers == <<payVars, lockVars, cvVars, rcVars, ntVars, itVars, utVars, rjVars, crVars, ciVars, nsVars, gnVars, tcVars, gaVars, pbVars>>
gnPeers == <<payVars, lockVars, cvVars, rcVars, ntVars, itVars, utVars, rjVars, crVars, ciVars, nsVars, fnVars, tcVars, gaVars, pbVars>>
tcPeers == <<payVars, lockVars, cvVars, rcVars, ntVars, itVars, utVars, rjVars, crVars, ciVars, nsVars, fnVars, gnVars, gaVars, pbVars>>
gaPeers == <<payVars, lockVars, cvVars, rcVars, ntVars, itVars, utVars, rjVars, crVars, ciVars, nsVars, fnVars, gnVars, tcVars, pbVars>>
pbPeers == <<payVars, lockVars, cvVars, rcVars, ntVars, itVars, utVars, rjVars, crVars, ciVars, nsVars, fnVars, gnVars, tcVars, gaVars>>

\* the same with the record of the exceptions, which most steps leave alone
payOthers == <<payPeers, unexpected>>
pbOthers == <<pbPeers, unexpected>>
lockOthers == <<lockPeers, unexpected>>
cvOthers == <<cvPeers, unexpected>>
rcOthers == <<rcPeers, unexpected>>
ntOthers == <<ntPeers, unexpected>>
itOthers == <<itPeers, unexpected>>
utOthers == <<utPeers, unexpected>>
rjOthers == <<rjPeers, unexpected>>
crOthers == <<crPeers, unexpected>>
ciOthers == <<ciPeers, unexpected>>
nsOthers == <<nsPeers, unexpected>>
fnOthers == <<fnPeers, unexpected>>
gnOthers == <<gnPeers, unexpected>>
tcOthers == <<tcPeers, unexpected>>
gaOthers == <<gaPeers, unexpected>>

---------------------------------------------------------------------------
(* Python helpers *)

None == {}

Some(v) == {v}

\* the value held by a non-None optional
The(o) == CHOOSE v \in o : TRUE

EmptyDict == <<>>

\* a Python bool and a Python str, told apart as isinstance tells them apart
PyBool(b) == [type |-> "bool", value |-> b]

PyStr(s) == [type |-> "str", value |-> s]

\* what str.lower does to one character
lower_char(c) ==
    CASE c = "T" -> "t" [] c = "R" -> "r" [] c = "U" -> "u" [] c = "E" -> "e"
      [] c = "Y" -> "y" [] c = "S" -> "s" [] c = "F" -> "f" [] c = "A" -> "a"
      [] c = "L" -> "l" [] c = "N" -> "n" [] c = "O" -> "o" [] OTHER -> c

\* str.lower
str_lower(s) == [i \in 1..Len(s) |-> lower_char(s[i])]

\* dict.get(key, default)
Get(d, key, default) == IF key \in DOMAIN d THEN d[key] ELSE default

\* dict.get(key): None when the key is missing
GetOpt(d, key) == IF key \in DOMAIN d THEN d[key] ELSE None

\* truth value of an optional dict: None and the empty dict are false
Truthy(o) == o # None /\ DOMAIN The(o) # {}

\* a list comprehension [f(x) for x in s] reading one field of every element
Pluck(s, field) == [i \in 1..Len(s) |-> s[i][field]]

---------------------------------------------------------------------------
(* Python strings, as sequences of one-character strings *)

\* the strings over an alphabet of at most n characters
Strings(alphabet, n) == UNION { [1..m -> alphabet] : m \in 0..n }

NoNewline(s, from, to) == \A i \in from..to : s[i] # "\n"

\* where the regular expression's $ matches: at the end of the string, and just
\* before a newline that is the string's last character
AtDollar(s, pos) == pos = Len(s) \/ (pos = Len(s) - 1 /\ s[Len(s)] = "\n")

Digits == {"0", "1", "2", "3", "4", "5", "6", "7", "8", "9"}

DigitValue(c) ==
    CASE c = "0" -> 0 [] c = "1" -> 1 [] c = "2" -> 2 [] c = "3" -> 3 [] c = "4" -> 4
      [] c = "5" -> 5 [] c = "6" -> 6 [] c = "7" -> 7 [] c = "8" -> 8 [] c = "9" -> 9

DigitChar(d) == <<"0", "1", "2", "3", "4", "5", "6", "7", "8", "9">>[d + 1]

\* s.split(sep): the pieces between the separators, at least one piece
RECURSIVE Split(_, _)
Split(s, sep) ==
    IF \A i \in DOMAIN s : s[i] # sep
    THEN <<s>>
    ELSE LET first == CHOOSE i \in DOMAIN s :
                          s[i] = sep /\ \A j \in 1..(i - 1) : s[j] # sep
         IN  <<SubSeq(s, 1, first - 1)>> \o Split(SubSeq(s, first + 1, Len(s)), sep)

\* sep.join(parts)
RECURSIVE Join(_, _)
Join(parts, sep) ==
    IF Len(parts) = 0 THEN <<>>
    ELSE IF Len(parts) = 1 THEN parts[1]
    ELSE parts[1] \o <<sep>> \o Join(Tail(parts), sep)

\* the value of a string of digits, read from the left
RECURSIVE DigitsValue(_)
DigitsValue(s) ==
    IF s = <<>> THEN 0
    ELSE 10 * DigitsValue(SubSeq(s, 1, Len(s) - 1)) + DigitValue(s[Len(s)])

AllDigits(s) == s # <<>> /\ \A i \in DOMAIN s : s[i] \in Digits

\* whether int(s) returns: an optional minus sign, then one or more digits
\* (of the characters the names are drawn from)
IntParses(s) == AllDigits(s) \/ (s # <<>> /\ s[1] = "-" /\ AllDigits(Tail(s)))

\* int(s) where it returns
Int_(s) == IF s[1] = "-" THEN 0 - DigitsValue(Tail(s)) ELSE DigitsValue(s)

\* str(n) of a natural number
RECURSIVE StrNat(_)
StrNat(n) == IF n < 10 THEN <<DigitChar(n)>> ELSE StrNat(n \div 10) \o <<DigitChar(n % 10)>>

\* str(n)
Str(n) == IF n < 0 THEN <<"-">> \o StrNat(0 - n) ELSE StrNat(n)

---------------------------------------------------------------------------
(* lock-branch/lock_branch.py *)

OptionalBooleanSettings ==
    {"required_linear_history", "allow_force_pushes", "allow_deletions",
     "block_creations", "required_conversation_resolution", "allow_fork_syncing"}

\* EnabledFlag with the default of a missing setting turned on
EnabledFlagDefaultOn(protection, name) ==
    Get(Get(protection, name, [enabled |-> TRUE]), "enabled", TRUE)

\* current_protection.get(name, {}).get('enabled', False)
EnabledFlag(protection, name) == Get(Get(protection, name, EmptyDict), "enabled", FALSE)

\* is_branch_locked taking a record without lock_branch for a locked branch
is_branch_locked_default_on(protection_settings) ==
    IF protection_settings = None
    THEN FALSE
    ELSE Get(Get(The(protection_settings), "lock_branch", [enabled |-> TRUE]), "enabled", TRUE)

\* is_branch_locked(protection_settings)
is_branch_locked(protection_settings) ==
    IF protection_settings = None
    THEN FALSE
    ELSE Get(Get(The(protection_settings), "lock_branch", EmptyDict), "enabled", FALSE)

\* the payload of a branch without protection record
DefaultPayload(lock_) ==
    [ required_status_checks |-> None,
      enforce_admins |-> TRUE,
      required_pull_request_reviews |-> None,
      restrictions |-> None,
      lock_branch |-> lock_,
      required_linear_history |-> TRUE,
      allow_force_pushes |-> FALSE,
      allow_deletions |-> FALSE,
      block_creations |-> FALSE,
      required_conversation_resolution |-> FALSE,
      allow_fork_syncing |-> FALSE ]

StatusChecksPayload(cp) ==
    LET status_checks == GetOpt(cp, "required_status_checks")
    IN  IF Truthy(status_checks)
        THEN Some([ strict |-> Get(The(status_checks), "strict", FALSE),
                    contexts |-> Get(The(status_checks), "contexts", <<>>) ])
        ELSE None

PullRequestReviewsPayload(cp) ==
    LET pr_reviews == GetOpt(cp, "required_pull_request_reviews")
    IN  IF Truthy(pr_reviews)
        THEN Some([ dismiss_stale_reviews |->
                        Get(The(pr_reviews), "dismiss_stale_reviews", FALSE),
                    require_code_owner_reviews |->
                        Get(The(pr_reviews), "require_code_owner_reviews", FALSE),
                    required_approving_review_count |->
                        Get(The(pr_reviews), "required_approving_review_count", 0) ])
        ELSE None

RestrictionsPayload(cp) ==
    LET restrictions == GetOpt(cp, "restrictions")
    IN  IF Truthy(restrictions)
        THEN Some([ users |-> Pluck(Get(The(restrictions), "users", <<>>), "login"),
                    teams |-> Pluck(Get(The(restrictions), "teams", <<>>), "slug"),
                    apps  |-> Pluck(Get(The(restrictions), "apps", <<>>), "slug") ])
        ELSE None

\* the payload built from an existing record
MergedPayload(cp, lock_) ==
    [ lock_branch |-> lock_,
      enforce_admins |-> EnabledFlag(cp, "enforce_admins"),
      required_status_checks |-> StatusChecksPayload(cp),
      required_pull_request_reviews |-> PullRequestReviewsPayload(cp),
      restrictions |-> RestrictionsPayload(cp),
      required_linear_history |-> EnabledFlag(cp, "required_linear_history"),
      allow_force_pushes |-> EnabledFlag(cp, "allow_force_pushes"),
      allow_deletions |-> EnabledFlag(cp, "allow_deletions"),
      block_creations |-> EnabledFlag(cp, "block_creations"),
      required_conversation_resolution |->
          EnabledFlag(cp, "required_conversation_resolution"),
      allow_fork_syncing |-> EnabledFlag(cp, "allow_fork_syncing") ]

\* build_protection_payload(current_protection, lock)
build_protection_payload(cp, lock_) ==
    IF cp = None THEN DefaultPayload(lock_) ELSE MergedPayload(The(cp), lock_)

---------------------------------------------------------------------------
(* The branch-protection records build_protection_payload is checked on *)

\* bounds of the input space
MaxKeys == 2          \* keys present in a record
MaxListLen == 2       \* entries of contexts and users
MaxReviewCount == 2   \* required_approving_review_count

ProtectionKeys ==
    {"enforce_admins", "lock_branch", "required_status_checks",
     "required_pull_request_reviews", "restrictions"} \cup OptionalBooleanSettings

\* the lists <<>>, <<[field |-> stem1]>>, ... of at most n entries
NamedLists(field, stem, n) ==
    { [i \in 1..m |-> (field :> (stem \o ToString(i)))] : m \in 0..n }

ContextLists == { [i \in 1..m |-> "ci/" \o ToString(i)] : m \in 0..MaxListLen }

\* the dicts over a subset of the keys of choices, each key with one of its values
RECURSIVE DictsOver(_, _)
DictsOver(K, choices) ==
    IF K = {} THEN {EmptyDict}
    ELSE LET k == CHOOSE x \in K : TRUE
         IN  { (k :> v) @@ d : v \in choices[k], d \in DictsOver(K \ {k}, choices) }

NonEmptyDicts(choices) ==
    UNION { DictsOver(K, choices) : K \in SUBSET (DOMAIN choices) \ {{}} }

StatusCheckDicts ==
    NonEmptyDicts([ strict |-> BOOLEAN, contexts |-> ContextLists ])

PullRequestReviewDicts ==
    NonEmptyDicts([ dismiss_stale_reviews |-> BOOLEAN,
                    require_code_owner_reviews |-> {TRUE},
                    required_approving_review_count |-> {MaxReviewCount} ])

RestrictionDicts ==
    NonEmptyDicts([ users |-> NamedLists("login", "user", MaxListLen),
                    teams |-> NamedLists("slug", "team", 1),
                    apps  |-> NamedLists("slug", "app", 1) ])

FlagDicts == { [enabled |-> b] : b \in BOOLEAN }

\* the values a key of the record can hold
ProtectionValues(k) ==
    CASE k = "required_status_checks" -> {None} \cup { Some(d) : d \in StatusCheckDicts }
      [] k = "required_pull_request_reviews" ->
            {None} \cup { Some(d) : d \in PullRequestReviewDicts }
      [] k = "restrictions" -> {None} \cup { Some(d) : d \in RestrictionDicts }
      [] OTHER -> FlagDicts

RECURSIVE ProtectionsOver(_)
ProtectionsOver(K) ==
    IF K = {} THEN {EmptyDict}
    ELSE LET k == CHOOSE x \in K : TRUE
         IN  { (k :> v) @@ d : v \in ProtectionValues(k), d \in ProtectionsOver(K \ {k}) }

ProtectionRecords ==
    UNION { ProtectionsOver(K) :
              K \in { S \in SUBSET ProtectionKeys : Cardinality(S) <= MaxKeys } }

CvIdle ==
    /\ cv_version_name = <<>>
    /\ cv_creds = FALSE
    /\ cv_versions = <<>>
    /\ cv_pc = "done"
    /\ cv_calls = <<>>
    /\ cv_stderr = <<>>
    /\ cv_stdout = <<>>
    /\ cv_exit = None

RcIdle ==
    /\ rc_release_name = <<>>
    /\ rc_new_version_name = <<>>
    /\ rc_creds = FALSE
    /\ rc_versions = <<>>
    /\ rc_pc = "done"
    /\ rc_version_to_release = None
    /\ rc_new_name = None
    /\ rc_calls = <<>>
    /\ rc_stderr = <<>>
    /\ rc_stdout = <<>>
    /\ rc_exit = None

NotesIdle ==
    /\ nt_issues = <<>>
    /\ nt_jira_url = <<>>
    /\ nt_project_name = ""
    /\ nt_version = ""
    /\ nt_category_order = <<>>
    /\ markdown_notes = None
    /\ jira_markup_notes = None
    /\ fetch_markdown_notes = None

ItIdle ==
    /\ it_creds = FALSE
    /\ it_links = <<>>
    /\ it_fix_versions = None
    /\ it_pc = "done"
    /\ it_release_issue = None
    /\ sqs_ticket_key = None
    /\ sc_ticket_key = None
    /\ it_calls = <<>>
    /\ it_stderr = <<>>
    /\ it_stdout = <<>>
    /\ it_exit = None

UtIdle ==
    /\ ut_creds = FALSE
    /\ ut_status = ""
    /\ ut_assignee = None
    /\ ut_ticket = None
    /\ ut_pc = "done"
    /\ ut_calls = <<>>
    /\ ut_stdout = <<>>
    /\ ut_stderr = <<>>
    /\ ut_exit = None

RjIdle ==
    /\ rj_version_name = ""
    /\ rj_creds = FALSE
    /\ rj_versions = <<>>
    /\ rj_pc = "done"
    /\ rj_version_to_release = None
    /\ rj_calls = <<>>
    /\ rj_stderr = <<>>
    /\ rj_exit = None

CrIdle ==
    /\ cr_release_name = ""
    /\ cr_creds = FALSE
    /\ cr_versions = <<>>
    /\ cr_pc = "done"
    /\ cr_target_version = None
    /\ cr_calls = <<>>
    /\ cr_stderr = <<>>
    /\ cr_stdout = <<>>
    /\ cr_exit = None

CiIdle ==
    /\ ci_args = [ticket_summary |-> "", project_name |-> "", release_version |-> ""]
    /\ ci_creds = FALSE
    /\ ci_issue_types = <<>>
    /\ ci_pc = "done"
    /\ ci_summary = None
    /\ ci_issue_type = None
    /\ ci_calls = <<>>
    /\ ci_stderr = <<>>
    /\ ci_stdout = <<>>
    /\ ci_exit = None

NsIdle ==
    /\ ns_channel = <<>>
    /\ ns_freeze = FALSE
    /\ ns_token = None
    /\ ns_pc = "done"
    /\ ns_calls = <<>>
    /\ ns_stderr = <<>>
    /\ ns_exit = None

FnIdle ==
    /\ fn_env = [JIRA_USER |-> None, JIRA_TOKEN |-> None]
    /\ fn_issues = <<>>
    /\ fn_pc = "done"
    /\ fn_calls = <<>>
    /\ fn_stderr = <<>>
    /\ fn_stdout = <<>>
    /\ fn_exit = None

GnIdle ==
    /\ gn_env = [JIRA_USER |-> None, JIRA_TOKEN |-> None]
    /\ gn_version_name = ""
    /\ gn_versions = <<>>
    /\ gn_issues = <<>>
    /\ gn_pc = "done"
    /\ gn_version_id = None
    /\ gn_calls = <<>>
    /\ gn_stderr = <<>>
    /\ gn_stdout = <<>>
    /\ gn_exit = None

TcIdle ==
    /\ tc_env = [JIRA_USER |-> None, JIRA_TOKEN |-> None]
    /\ tc_versions = <<>>
    /\ tc_pc = "done"
    /\ tc_target_version = None
    /\ tc_calls = <<>>
    /\ tc_stderr = <<>>
    /\ tc_stdout = <<>>
    /\ tc_exit = None

GaIdle ==
    /\ ga_env = [JIRA_USER |-> None, JIRA_TOKEN |-> None]
    /\ ga_versions = <<>>
    /\ ga_pc = "done"
    /\ ga_target_version = None
    /\ ga_calls = <<>>
    /\ ga_stderr = <<>>
    /\ ga_stdout = <<>>
    /\ ga_exit = None

PayIdle ==
    /\ current_protection = None
    /\ lock = FALSE
    /\ payload = None

PbIdle ==
    /\ pb_value = PyBool(FALSE)
    /\ pb_result = Some(FALSE)

---------------------------------------------------------------------------
(* lock-branch/lock_branch.py: main() *)

\* the concurrent runs on the branch
Runs == {1, 2}

Branch == "main"

\* str(b).lower()
BoolStr(b) == IF b THEN "true" ELSE "false"

\* the comparison of main() that always finds an update needed
AlreadyInStateNever(previous, requested) == FALSE

\* the comparison of main() taken the wrong way round
AlreadyInStateInverted(previous, requested) == previous # requested

\* previous_locked == freeze
AlreadyInState(previous, requested) == previous = requested

\* the record GitHub keeps after a successful PUT of a payload
StoredProtection(p) ==
    [ lock_branch |-> [enabled |-> p.lock_branch],
      enforce_admins |-> [enabled |-> p.enforce_admins],
      required_status_checks |-> p.required_status_checks,
      required_pull_request_reviews |-> p.required_pull_request_reviews,
      restrictions |->
          IF p.restrictions = None THEN None
          ELSE LET q == The(p.restrictions)
               IN  Some([ users |-> [i \in 1..Len(q.users) |-> [login |-> q.users[i]]],
                          teams |-> [i \in 1..Len(q.teams) |-> [slug |-> q.teams[i]]],
                          apps  |-> [i \in 1..Len(q.apps) |-> [slug |-> q.apps[i]]] ]),
      required_linear_history |-> [enabled |-> p.required_linear_history],
      allow_force_pushes |-> [enabled |-> p.allow_force_pushes],
      allow_deletions |-> [enabled |-> p.allow_deletions],
      block_creations |-> [enabled |-> p.block_creations],
      required_conversation_resolution |->
          [enabled |-> p.required_conversation_resolution],
      allow_fork_syncing |-> [enabled |-> p.allow_fork_syncing] ]

\* the records the branch can start with: none, or one over the lock and admin keys
InitialRemotes ==
    {None} \cup
    { Some(r) : r \in UNION { ProtectionsOver(K) :
                                K \in SUBSET {"lock_branch", "enforce_admins"} } }

\* the words parse_bool takes for true
TrueWords == { <<"t","r","u","e">>, <<"1">>, <<"y","e","s">> }

\* parse_bool without the call of lower()
parse_bool_case_sensitive(value) ==
    IF value.type = "bool" THEN value.value
    ELSE value.value \in TrueWords

\* utils.parse_bool
parse_bool(value) ==
    IF value.type = "bool" THEN value.value
    ELSE str_lower(value.value) \in TrueWords

\* the --freeze arguments of the runs
FreezeArgs ==
    { <<"t","r","u","e">>, <<"T","r","u","e">>, <<"1">>, <<"y","e","s">>,
      <<"f","a","l","s","e">>, <<"0">>, <<"n","o">>, <<"o","n">> }

LockIdle ==
    /\ remote = None
    /\ wire = <<>>
    /\ lb_pc = [r \in Runs |-> "done"]
    /\ lb_token = [r \in Runs |-> FALSE]
    /\ freeze_arg = [r \in Runs |-> <<>>]
    /\ freeze = [r \in Runs |-> FALSE]
    /\ lb_read = [r \in Runs |-> None]
    /\ previous_locked = [r \in Runs |-> None]
    /\ lb_stdout = [r \in Runs |-> <<>>]
    /\ lb_exit = [r \in Runs |-> None]

LockInit ==
    /\ PayIdle /\ CvIdle /\ RcIdle /\ NotesIdle /\ ItIdle /\ UtIdle /\ RjIdle /\ CrIdle /\ CiIdle /\ NsIdle /\ FnIdle /\ GnIdle /\ TcIdle /\ GaIdle /\ PbIdle
    /\ unexpected = <<>>
    /\ remote \in InitialRemotes
    /\ wire = <<>>
    /\ lb_pc = [r \in Runs |-> "parse"]
    /\ lb_token \in [Runs -> BOOLEAN]
    /\ freeze_arg \in [Runs -> FreezeArgs]
    /\ freeze = [r \in Runs |-> FALSE]
    /\ lb_read = [r \in Runs |-> None]
    /\ previous_locked = [r \in Runs |-> None]
    /\ lb_stdout = [r \in Runs |-> <<>>]
    /\ lb_exit = [r \in Runs |-> None]

\* the run ending with exit code 1 whatever the code given
LockExitOne(r, code) ==
    /\ lb_pc' = [lb_pc EXCEPT ![r] = "done"]
    /\ lb_exit' = [lb_exit EXCEPT ![r] = Some(1)]

\* sys.exit(code)
LockExit(r, code) ==
    /\ lb_pc' = [lb_pc EXCEPT ![r] = "done"]
    /\ lb_exit' = [lb_exit EXCEPT ![r] = Some(code)]

\* main(): freeze = parse_bool(args.freeze)
ParseFreeze(r) ==
    /\ lb_pc[r] = "parse"
    /\ freeze' = [freeze EXCEPT ![r] = parse_bool(PyStr(freeze_arg[r]))]
    /\ lb_pc' = [lb_pc EXCEPT ![r] = "token"]
    /\ UNCHANGED <<lockOthers, remote, wire, lb_token, freeze_arg, lb_read, previous_locked,
                   lb_stdout, lb_exit>>

\* get_github_token(): require_env_token('GITHUB_TOKEN')
GetGithubToken(r) ==
    /\ lb_pc[r] = "token"
    /\ IF lb_token[r]
       THEN lb_pc' = [lb_pc EXCEPT ![r] = "get"] /\ UNCHANGED lb_exit
       ELSE LockExit(r, 1)
    /\ UNCHANGED <<lockOthers, remote, wire, lb_token, freeze_arg, freeze, lb_read, previous_locked, lb_stdout>>

\* get_branch_protection answered 200 or 404, then is_branch_locked
GetBranchProtection(r) ==
    /\ lb_pc[r] = "get"
    /\ wire' = Append(wire, [run |-> r, method |-> "GET",
                             status |-> IF remote = None THEN 404 ELSE 200])
    /\ lb_read' = [lb_read EXCEPT ![r] = remote]
    /\ previous_locked' = [previous_locked EXCEPT ![r] = Some(is_branch_locked(remote))]
    /\ lb_pc' = [lb_pc EXCEPT ![r] = "compare"]
    /\ UNCHANGED <<lockOthers, remote, lb_token, freeze_arg, freeze, lb_stdout, lb_exit>>

\* get_branch_protection answered another status: sys.exit(1)
GetBranchProtectionFails(r) ==
    /\ lb_pc[r] = "get"
    /\ \E status \in {403, 500} :
         wire' = Append(wire, [run |-> r, method |-> "GET", status |-> status])
    /\ LockExit(r, 1)
    /\ UNCHANGED <<lockOthers, remote, lb_token, freeze_arg, freeze, lb_read, previous_locked, lb_stdout>>

\* main(): the branch is already in the requested state, no update
SkipUpdate(r) ==
    /\ lb_pc[r] = "compare"
    /\ AlreadyInState(The(previous_locked[r]), freeze[r])
    /\ lb_pc' = [lb_pc EXCEPT ![r] = "emit"]
    /\ UNCHANGED <<lockOthers, remote, wire, lb_token, freeze_arg, freeze, lb_read, previous_locked,
                   lb_stdout, lb_exit>>

\* update_branch_lock answered 200 or 201
UpdateBranchLock(r) ==
    /\ lb_pc[r] = "compare"
    /\ ~AlreadyInState(The(previous_locked[r]), freeze[r])
    /\ LET sent == build_protection_payload(lb_read[r], freeze[r])
       IN  /\ remote' = Some(StoredProtection(sent))
           /\ wire' = Append(wire, [run |-> r, method |-> "PUT",
                                    status |-> IF remote = None THEN 201 ELSE 200])
    /\ lb_pc' = [lb_pc EXCEPT ![r] = "emit"]
    /\ UNCHANGED <<lockOthers, lb_token, freeze_arg, freeze, lb_read, previous_locked, lb_stdout, lb_exit>>

\* update_branch_lock answered another status: sys.exit(1)
UpdateBranchLockFails(r) ==
    /\ lb_pc[r] = "compare"
    /\ ~AlreadyInState(The(previous_locked[r]), freeze[r])
    /\ wire' = Append(wire, [run |-> r, method |-> "PUT", status |-> 403])
    /\ LockExit(r, 1)
    /\ UNCHANGED <<lockOthers, remote, lb_token, freeze_arg, freeze, lb_read, previous_locked, lb_stdout>>

\* main(): the three output lines, then the end of the run
EmitLockResult(r) ==
    /\ lb_pc[r] = "emit"
    /\ lb_stdout' = [lb_stdout EXCEPT ![r] =
           << <<"previous_state", BoolStr(The(previous_locked[r]))>>,
              <<"current_state", BoolStr(freeze[r])>>,
              <<"branch", Branch>> >>]
    /\ LockExit(r, 0)
    /\ UNCHANGED <<lockOthers, remote, wire, lb_token, freeze_arg, freeze, lb_read, previous_locked>>

LockNext ==
    \/ \E r \in Runs : ParseFreeze(r)
    \/ \E r \in Runs : GetGithubToken(r)
    \/ \E r \in Runs : GetBranchProtection(r)
    \/ \E r \in Runs : GetBranchProtectionFails(r)
    \/ \E r \in Runs : SkipUpdate(r)
    \/ \E r \in Runs : UpdateBranchLock(r)
    \/ \E r \in Runs : UpdateBranchLockFails(r)
    \/ \E r \in Runs : EmitLockResult(r)

SpecLock == LockInit /\ [][LockNext]_vars

---------------------------------------------------------------------------
(* parse_bool on its own *)

\* the capital of a letter, and the character itself when it has none
Capital(c) ==
    CASE c = "t" -> "T" [] c = "r" -> "R" [] c = "u" -> "U" [] c = "e" -> "E"
      [] c = "y" -> "Y" [] c = "s" -> "S" [] c = "f" -> "F" [] c = "a" -> "A"
      [] c = "l" -> "L" [] c = "n" -> "N" [] c = "o" -> "O" [] OTHER -> c

\* the spellings of a word in small and capital letters
RECURSIVE Spellings(_)
Spellings(w) ==
    IF w = <<>> THEN { <<>> }
    ELSE { <<c>> \o rest : c \in {w[1], Capital(w[1])}, rest \in Spellings(Tail(w)) }

\* the words given to parse_bool: the six of its tests and some others
ParseBoolWords ==
    TrueWords \cup
    { <<"f","a","l","s","e">>, <<"0">>, <<"n","o">>, <<"o","n">>, <<"y">>, <<>>,
      <<"t","r","u">>, <<"t","r","u","e"," ">>, <<"2">> }

ParseBoolValues ==
    { PyBool(b) : b \in BOOLEAN } \cup
    { PyStr(s) : s \in UNION { Spellings(w) : w \in ParseBoolWords } }

ParseBoolInit ==
    /\ PayIdle /\ LockIdle /\ CvIdle /\ RcIdle /\ NotesIdle /\ ItIdle /\ UtIdle /\ RjIdle /\ CrIdle /\ CiIdle /\ NsIdle /\ FnIdle /\ GnIdle /\ TcIdle /\ GaIdle
    /\ unexpected = <<>>
    /\ pb_value \in ParseBoolValues
    /\ pb_result = None

\* the call parse_bool(value)
ParseBool ==
    /\ pb_result = None
    /\ pb_result' = Some(parse_bool(pb_value))
    /\ UNCHANGED <<pbOthers, pb_value>>

ParseBoolNext == ParseBool

SpecParseBool == ParseBoolInit /\ [][ParseBoolNext]_vars

\* parse_bool called on its own and in the runs of lock-branch
FreezeInit == ParseBoolInit \/ LockInit

FreezeNext == ParseBoolNext \/ LockNext

SpecFreeze == FreezeInit /\ [][FreezeNext]_vars

---------------------------------------------------------------------------
(* build_protection_payload on its own *)

PayInit ==
    /\ LockIdle /\ CvIdle /\ RcIdle /\ NotesIdle /\ ItIdle /\ UtIdle /\ RjIdle /\ CrIdle /\ CiIdle /\ NsIdle /\ FnIdle /\ GnIdle /\ TcIdle /\ GaIdle /\ PbIdle
    /\ unexpected = <<>>
    /\ current_protection \in {None} \cup { Some(r) : r \in ProtectionRecords }
    /\ lock \in BOOLEAN
    /\ payload = None

\* one call of build_protection_payload
BuildPayload ==
    /\ payload = None
    /\ payload' = Some(build_protection_payload(current_protection, lock))
    /\ UNCHANGED <<current_protection, lock, payOthers>>

PayNext == BuildPayload

SpecPayload == PayInit /\ [][PayNext]_vars

---------------------------------------------------------------------------
(* create-jira-version/create_jira_version.py *)

\* the lengths k of group 1 for which ^(.+)\.0$ matches: one or more characters
\* other than newline, then ".0", then $
GroupLengths(version_name) ==
    { k \in 1..Len(version_name) :
        /\ k + 2 <= Len(version_name)
        /\ NoNewline(version_name, 1, k)
        /\ version_name[k + 1] = "."
        /\ version_name[k + 2] = "0"
        /\ AtDollar(version_name, k + 2) }

\* normalize_version_name(version_name): group 1 of the greedy match, else the name
normalize_version_name(version_name) ==
    IF GroupLengths(version_name) = {}
    THEN version_name
    ELSE SubSeq(version_name, 1,
                CHOOSE k \in GroupLengths(version_name) :
                    \A j \in GroupLengths(version_name) : j <= k)

ProjectKey == "PROJ"

\* the JIRAError of a ticket the tracker does not know, and of a failing server
NotFoundError == [status_code |-> 404, text |-> "Issue Does Not Exist"]

ServerError == [status_code |-> 500, text |-> "Internal Server Error"]

\* the tracker's answer for a project it does not know
ProjectNotFoundError ==
    [status_code |-> 404, text |-> "No project could be found with key 'PROJ'."]

\* an exception that is not a JIRAError
OtherException == [exception |-> "Connection reset by peer"]

\* a get_jira_instance without its except Exception branch: the exception
\* leaves the function
connection_error_propagates(e) == [errors |-> << >>, exit |-> None]

\* get_jira_instance, except Exception as e: the line written, and sys.exit(1)
connection_error_caught(e) ==
    [errors |-> << <<"An unexpected error occurred during JIRA connection: ", e.exception>> >>,
     exit |-> Some(1)]

\* the first line the interpreter writes for an exception nothing caught
TracebackLine == <<"Traceback (most recent call last):">>

\* the record of an exception raised by a step of a script
Raised(script, step, e) == [script |-> script, step |-> step, exception |-> e.exception]

AlreadyExistsText == "A version with this name already exists in this project."

OtherErrorText == "Internal server error"

\* a test that takes every refusal for "already exists"
SaysAlreadyExistsAlways(text) == TRUE

\* "A version with this name already exists" in e.text
SaysAlreadyExists(text) == text = AlreadyExistsText

\* a find_existing_version that looks at the first version of the project only
find_first_version_only(versions, version_name) ==
    IF versions # <<>> /\ versions[1].name = version_name THEN Some(versions[1]) ELSE None

\* find_existing_version: the first version of the project with that name
find_existing_version(versions, version_name) ==
    LET hits == { i \in DOMAIN versions : versions[i].name = version_name }
    IN  IF hits = {} THEN None
        ELSE Some(versions[CHOOSE i \in hits : \A j \in hits : i <= j])

\* bounds of the input space
MaxNameLen == 5

NameAlphabet == {"0", "9", ".", "\n"}

\* the project's versions a run can meet: none, the requested name, its
\* normalized form, both
InitialVersions(name) ==
    { <<>>,
      << [id |-> 1, name |-> name] >>,
      << [id |-> 1, name |-> normalize_version_name(name)] >>,
      << [id |-> 1, name |-> name], [id |-> 2, name |-> normalize_version_name(name)] >> }

CvInit ==
    /\ PayIdle /\ LockIdle /\ RcIdle /\ NotesIdle /\ ItIdle /\ UtIdle /\ RjIdle /\ CrIdle /\ CiIdle /\ NsIdle /\ FnIdle /\ GnIdle /\ TcIdle /\ GaIdle /\ PbIdle
    /\ unexpected = <<>>
    /\ cv_version_name \in Strings(NameAlphabet, MaxNameLen)
    /\ cv_creds \in BOOLEAN
    /\ cv_versions \in InitialVersions(cv_version_name)
    /\ cv_pc = "connect"
    /\ cv_calls = <<>>
    /\ cv_stderr = <<>>
    /\ cv_stdout = <<>>
    /\ cv_exit = None

CvExit(code) ==
    /\ cv_pc' = "done"
    /\ cv_exit' = Some(code)

\* get_jira_instance: the credentials are missing, sys.exit(1) before any call
CvMissingCredentials ==
    /\ cv_pc = "connect"
    /\ ~cv_creds
    /\ cv_stderr' = Append(cv_stderr,
                      <<"Error: JIRA_USER and JIRA_TOKEN environment variables must be set.">>)
    /\ CvExit(1)
    /\ UNCHANGED <<cvOthers, cv_version_name, cv_creds, cv_versions, cv_calls, cv_stdout>>

\* get_jira_instance: JIRA(...) and server_info() succeed
CvConnect ==
    /\ cv_pc = "connect"
    /\ cv_creds
    /\ cv_calls' = Append(cv_calls, [op |-> "server_info"])
    /\ cv_pc' = "create"
    /\ UNCHANGED <<cvOthers, cv_version_name, cv_creds, cv_versions, cv_stderr, cv_stdout,
                   cv_exit>>

\* get_jira_instance: JIRA(...) or server_info() raises, sys.exit(1)
CvConnectFails ==
    /\ cv_pc = "connect"
    /\ cv_creds
    /\ cv_calls' = Append(cv_calls, [op |-> "server_info"])
    /\ cv_stderr' = cv_stderr \o
                      << <<"Error: JIRA authentication failed. Status: ",
                           ToString(ServerError.status_code)>>,
                         <<"Response text: ", ServerError.text>> >>
    /\ CvExit(1)
    /\ UNCHANGED <<cvOthers, cv_version_name, cv_creds, cv_versions, cv_stdout>>

CreateCall == [op |-> "create_version",
               name |-> normalize_version_name(cv_version_name),
               project |-> ProjectKey]

\* main(): create_version succeeds, the id and the name of the new version are printed
CvCreate ==
    /\ cv_pc = "create"
    /\ find_existing_version(cv_versions, CreateCall.name) = None
    /\ LET new_version == [id |-> Len(cv_versions) + 1, name |-> CreateCall.name]
       IN  /\ cv_versions' = Append(cv_versions, new_version)
           /\ cv_stdout' = << <<"new_version_id", new_version.id>>,
                              <<"new_version_name", new_version.name>> >>
    /\ cv_calls' = Append(cv_calls, CreateCall)
    /\ CvExit(0)
    /\ UNCHANGED <<cvOthers, cv_version_name, cv_creds, cv_stderr>>

ExistingVersionWarning(version_name) ==
    <<"Warning: Version '", version_name, "' already exists. Skipping creation.">>

\* main(): create_version raises "already exists"; handle_existing_version looks
\* the version up and prints it, or exits 1 when the project does not list it
CvCreateAlreadyExists ==
    /\ cv_pc = "create"
    /\ SaysAlreadyExists(AlreadyExistsText)
    /\ cv_calls' = cv_calls \o << CreateCall, [op |-> "project", project |-> ProjectKey] >>
    /\ LET existing_version == find_existing_version(cv_versions, CreateCall.name)
       IN  IF existing_version # None
           THEN /\ cv_stdout' = << <<"new_version_id", The(existing_version).id>>,
                                   <<"new_version_name", The(existing_version).name>> >>
                /\ cv_stderr' = Append(cv_stderr, ExistingVersionWarning(CreateCall.name))
                /\ CvExit(0)
           ELSE /\ cv_stderr' = cv_stderr \o
                       << ExistingVersionWarning(CreateCall.name),
                          <<"Error: Could not find existing version '", CreateCall.name,
                            "' in project.">> >>
                /\ CvExit(1)
                /\ UNCHANGED cv_stdout
    /\ UNCHANGED <<cvOthers, cv_version_name, cv_creds, cv_versions>>

\* handle_existing_version: jira.project raises JIRAError in find_existing_version,
\* outside any try: the exception leaves main(), the interpreter prints the
\* traceback and ends with status 1
CvProjectRaises ==
    /\ cv_pc = "create"
    /\ SaysAlreadyExists(AlreadyExistsText)
    /\ \E e \in {ProjectNotFoundError, ServerError} :
         cv_calls' = cv_calls \o << CreateCall, [op |-> "project", project |-> ProjectKey,
                                                 error |-> e] >>
    /\ cv_stderr' = cv_stderr \o << ExistingVersionWarning(CreateCall.name),
                                    <<"Traceback (most recent call last):">> >>
    /\ cv_pc' = "raised"
    /\ cv_exit' = Some(1)
    /\ UNCHANGED <<cvOthers, cv_version_name, cv_creds, cv_versions, cv_stdout>>

\* main(): create_version raises another JIRAError, sys.exit(1)
CvCreateFails ==
    /\ cv_pc = "create"
    /\ ~SaysAlreadyExists(OtherErrorText)
    /\ cv_calls' = Append(cv_calls, CreateCall)
    /\ cv_stderr' = Append(cv_stderr,
                      <<"Error: Failed to create new version. Status: ",
                        ToString(ServerError.status_code), ", Text: ", OtherErrorText>>)
    /\ CvExit(1)
    /\ UNCHANGED <<cvOthers, cv_version_name, cv_creds, cv_versions, cv_stdout>>

\* get_jira_instance: the constructor raises an exception that is not a
\* JIRAError: except Exception, a message and sys.exit(1)
CvConnectUnexpected ==
    /\ cv_pc = "connect"
    /\ cv_creds
    /\ unexpected' = Append(unexpected, Raised("cv", "JIRA", OtherException))
    /\ LET caught == connection_error_caught(OtherException)
       IN  /\ cv_stderr' = cv_stderr \o
                 (IF caught.exit = None THEN <<TracebackLine>> ELSE caught.errors)
           /\ cv_pc' = IF caught.exit = None THEN "raised" ELSE "done"
           /\ cv_exit' = IF caught.exit = None THEN Some(1) ELSE caught.exit
    /\ UNCHANGED <<cvPeers, cv_version_name, cv_creds, cv_versions, cv_calls, cv_stdout>>

\* a remote call after the connection raises an exception that is not a
\* JIRAError: no except branch takes it, the exception leaves main()
CvUnhandled ==
    /\ \E step \in {<<"create", "create_version">>} :
         /\ cv_pc = step[1]
         /\ unexpected' = Append(unexpected, Raised("cv", step[2], OtherException))
    /\ cv_stderr' = Append(cv_stderr, TracebackLine)
    /\ cv_pc' = "raised"
    /\ cv_exit' = Some(1)
    /\ UNCHANGED <<cvPeers, cv_version_name, cv_creds, cv_versions, cv_calls, cv_stdout>>

CvNext ==
    \/ CvConnectUnexpected
    \/ CvUnhandled
    \/ CvMissingCredentials
    \/ CvConnect
    \/ CvConnectFails
    \/ CvCreate
    \/ CvCreateAlreadyExists
    \/ CvProjectRaises
    \/ CvCreateFails

SpecCreateVersion == CvInit /\ [][CvNext]_vars

---------------------------------------------------------------------------
(* release-jira-version/release_and_create_jira_version.py *)

\* increment_version_string adding to the first component instead of the last
increment_first_component(version_name) ==
    LET parts == Split(version_name, ".")
    IN  IF IntParses(parts[Len(parts)])
        THEN Some(Join([parts EXCEPT ![1] = Str(Int_(parts[Len(parts)]) + 1)], "."))
        ELSE None

\* increment_version_string(version_name): the next name, None where it exits 1
increment_version_string(version_name) ==
    LET parts == Split(version_name, ".")
    IN  IF IntParses(parts[Len(parts)])
        THEN Some(Join([parts EXCEPT ![Len(parts)] = Str(Int_(parts[Len(parts)]) + 1)], "."))
        ELSE None

\* the first version of the list with that name: its position, or None
FirstNamed(versions, name) ==
    LET hits == { i \in DOMAIN versions : versions[i].name = name }
    IN  IF hits = {} THEN None ELSE Some(CHOOSE i \in hits : \A j \in hits : i <= j)

\* bounds of the input space
MaxVersionLen == 4

VersionAlphabet == {"0", "9", ".", "-", "x"}

\* the project's versions a run can meet: none, the named one unreleased, the
\* named one released
ReleaseVersions(name) ==
    { <<>>,
      << [id |-> 1, name |-> name, released |-> FALSE] >>,
      << [id |-> 1, name |-> name, released |-> TRUE] >> }

RcInit ==
    /\ PayIdle /\ LockIdle /\ CvIdle /\ NotesIdle /\ ItIdle /\ UtIdle /\ RjIdle /\ CrIdle /\ CiIdle /\ NsIdle /\ FnIdle /\ GnIdle /\ TcIdle /\ GaIdle /\ PbIdle
    /\ unexpected = <<>>
    /\ rc_release_name \in Strings(VersionAlphabet, MaxVersionLen)
    /\ rc_new_version_name \in {<<>>, <<"9">>}
    /\ rc_creds \in BOOLEAN
    /\ rc_versions \in ReleaseVersions(rc_release_name)
    /\ rc_pc = "connect"
    /\ rc_version_to_release = None
    /\ rc_new_name = None
    /\ rc_calls = <<>>
    /\ rc_stderr = <<>>
    /\ rc_stdout = <<>>
    /\ rc_exit = None

RcExit(code) ==
    /\ rc_pc' = "done"
    /\ rc_exit' = Some(code)

\* get_jira_instance: the credentials are missing, sys.exit(1) before any call
RcMissingCredentials ==
    /\ rc_pc = "connect"
    /\ ~rc_creds
    /\ rc_stderr' = Append(rc_stderr,
                      <<"Error: JIRA_USER and JIRA_TOKEN environment variables must be set.">>)
    /\ RcExit(1)
    /\ UNCHANGED <<rcOthers, rc_release_name, rc_new_version_name, rc_creds, rc_versions,
                   rc_version_to_release, rc_new_name, rc_calls, rc_stdout>>

\* get_jira_instance: JIRA(...) and server_info() succeed
RcConnect ==
    /\ rc_pc = "connect"
    /\ rc_creds
    /\ rc_calls' = Append(rc_calls, [op |-> "server_info"])
    /\ rc_pc' = "versions"
    /\ UNCHANGED <<rcOthers, rc_stderr, rc_release_name, rc_new_version_name, rc_creds, rc_versions,
                   rc_version_to_release, rc_new_name, rc_stdout, rc_exit>>

\* get_jira_instance: JIRA(...) or server_info() raises, sys.exit(1)
RcConnectFails ==
    /\ rc_pc = "connect"
    /\ rc_creds
    /\ rc_calls' = Append(rc_calls, [op |-> "server_info"])
    /\ rc_stderr' = rc_stderr \o
                      << <<"Error: JIRA authentication failed. Status: ",
                           ToString(ServerError.status_code)>>,
                         <<"Response text: ", ServerError.text>> >>
    /\ RcExit(1)
    /\ UNCHANGED <<rcOthers, rc_release_name, rc_new_version_name, rc_creds, rc_versions,
                   rc_version_to_release, rc_new_name, rc_stdout>>

\* main(): project_versions returns, the first version with the name is searched;
\* sys.exit(1) when there is none
RcFindVersion ==
    /\ rc_pc = "versions"
    /\ rc_calls' = Append(rc_calls, [op |-> "project_versions"])
    /\ LET found == FirstNamed(rc_versions, rc_release_name)
       IN  IF found = None
           THEN /\ rc_stderr' = Append(rc_stderr,
                                  <<"Error: Version '", rc_release_name,
                                    "' not found in project '", ProjectKey, "'.">>)
                /\ RcExit(1)
                /\ UNCHANGED rc_version_to_release
           ELSE /\ rc_version_to_release' = found
                /\ rc_pc' = "release"
                /\ UNCHANGED <<rc_stderr, rc_exit>>
    /\ UNCHANGED <<rcOthers, rc_release_name, rc_new_version_name, rc_creds, rc_versions,
                   rc_new_name, rc_stdout>>

\* main(): project_versions raises JIRAError, sys.exit(1)
RcFindVersionFails ==
    /\ rc_pc = "versions"
    /\ \E e \in {ProjectNotFoundError, ServerError} :
         /\ rc_calls' = Append(rc_calls, [op |-> "project_versions", error |-> e])
         /\ rc_stderr' = Append(rc_stderr,
                           <<"Error: Could not fetch versions for project '", ProjectKey,
                             "'. Status: ", ToString(e.status_code)>>)
    /\ RcExit(1)
    /\ UNCHANGED <<rcOthers, rc_release_name, rc_new_version_name, rc_creds, rc_versions,
                   rc_version_to_release, rc_new_name, rc_stdout>>

\* main(): the version is already released, the release step is skipped
RcSkipRelease ==
    /\ rc_pc = "release"
    /\ rc_versions[The(rc_version_to_release)].released
    /\ rc_stderr' = Append(rc_stderr,
                      <<"Warning: Version '", rc_versions[The(rc_version_to_release)].name,
                        "' is already released. Skipping release step.">>)
    /\ rc_pc' = "name"
    /\ UNCHANGED <<rcOthers, rc_release_name, rc_new_version_name, rc_creds, rc_versions,
                   rc_version_to_release, rc_new_name, rc_calls, rc_stdout, rc_exit>>

\* main(): version_to_release.update(released=True, releaseDate=today) succeeds
RcRelease ==
    /\ rc_pc = "release"
    /\ ~rc_versions[The(rc_version_to_release)].released
    /\ rc_versions' = [rc_versions EXCEPT ![The(rc_version_to_release)].released = TRUE]
    /\ rc_calls' = Append(rc_calls, [op |-> "update",
                                     id |-> rc_versions[The(rc_version_to_release)].id])
    /\ rc_pc' = "name"
    /\ UNCHANGED <<rcOthers, rc_stderr, rc_release_name, rc_new_version_name, rc_creds,
                   rc_version_to_release, rc_new_name, rc_stdout, rc_exit>>

\* main(): the update raises JIRAError, sys.exit(1)
RcReleaseFails ==
    /\ rc_pc = "release"
    /\ ~rc_versions[The(rc_version_to_release)].released
    /\ rc_calls' = Append(rc_calls, [op |-> "update",
                                     id |-> rc_versions[The(rc_version_to_release)].id])
    /\ rc_stderr' = Append(rc_stderr,
                      <<"Error: Failed to release version. Status: ",
                        ToString(ServerError.status_code), ", Text: ", ServerError.text>>)
    /\ RcExit(1)
    /\ UNCHANGED <<rcOthers, rc_release_name, rc_new_version_name, rc_creds, rc_versions,
                   rc_version_to_release, rc_new_name, rc_stdout>>

\* main(): the next name is the one given, else the release name incremented;
\* sys.exit(1) when it cannot be incremented
RcChooseName ==
    /\ rc_pc = "name"
    /\ LET new_name == IF rc_new_version_name # <<>>
                       THEN Some(rc_new_version_name)
                       ELSE increment_version_string(rc_release_name)
       IN  IF new_name = None
           THEN /\ rc_stderr' = Append(rc_stderr,
                                  <<"Error: Could not auto-increment version '",
                                    rc_release_name,
                                    "'. It does not seem to follow a standard x.y.z format.">>)
                /\ RcExit(1)
                /\ UNCHANGED rc_new_name
           ELSE /\ rc_new_name' = new_name
                /\ rc_pc' = "create"
                /\ UNCHANGED <<rc_stderr, rc_exit>>
    /\ UNCHANGED <<rcOthers, rc_release_name, rc_new_version_name, rc_creds, rc_versions,
                   rc_version_to_release, rc_calls, rc_stdout>>

RcCreateCall == [op |-> "create_version", name |-> The(rc_new_name), project |-> ProjectKey]

\* main(): create_version succeeds, new_version_name is printed
RcCreate ==
    /\ rc_pc = "create"
    /\ FirstNamed(rc_versions, The(rc_new_name)) = None
    /\ rc_versions' = Append(rc_versions, [id |-> Len(rc_versions) + 1,
                                           name |-> The(rc_new_name),
                                           released |-> FALSE])
    /\ rc_calls' = Append(rc_calls, RcCreateCall)
    /\ rc_stdout' = << <<"new_version_name", The(rc_new_name)>> >>
    /\ RcExit(0)
    /\ UNCHANGED <<rcOthers, rc_stderr, rc_release_name, rc_new_version_name, rc_creds,
                   rc_version_to_release, rc_new_name>>

\* the answers of a tracker that refuses to create the version
CreateErrorTexts == {AlreadyExistsText, OtherErrorText}

RcFailedCreateCall(text) ==
    [op |-> "create_version", name |-> The(rc_new_name), project |-> ProjectKey,
     error |-> text]

\* main(): create_version raises "already exists": a warning, the name is printed
RcCreateAlreadyExists ==
    /\ rc_pc = "create"
    /\ \E text \in CreateErrorTexts :
         /\ SaysAlreadyExists(text)
         /\ rc_calls' = Append(rc_calls, RcFailedCreateCall(text))
    /\ rc_stderr' = Append(rc_stderr,
                      <<"Warning: Version '", The(rc_new_name),
                        "' already exists. Skipping creation.">>)
    /\ rc_stdout' = << <<"new_version_name", The(rc_new_name)>> >>
    /\ RcExit(0)
    /\ UNCHANGED <<rcOthers, rc_release_name, rc_new_version_name, rc_creds, rc_versions,
                   rc_version_to_release, rc_new_name>>

\* main(): create_version raises another JIRAError, sys.exit(1)
RcCreateFails ==
    /\ rc_pc = "create"
    /\ \E text \in CreateErrorTexts :
         /\ ~SaysAlreadyExists(text)
         /\ rc_calls' = Append(rc_calls, RcFailedCreateCall(text))
         /\ rc_stderr' = Append(rc_stderr,
                           <<"Error: Failed to create new version. Status: ",
                             ToString(ServerError.status_code), ", Text: ", text>>)
    /\ RcExit(1)
    /\ UNCHANGED <<rcOthers, rc_release_name, rc_new_version_name, rc_creds, rc_versions,
                   rc_version_to_release, rc_new_name, rc_stdout>>

\* get_jira_instance: the constructor raises an exception that is not a
\* JIRAError: except Exception, a message and sys.exit(1)
RcConnectUnexpected ==
    /\ rc_pc = "connect"
    /\ rc_creds
    /\ unexpected' = Append(unexpected, Raised("rc", "JIRA", OtherException))
    /\ LET caught == connection_error_caught(OtherException)
       IN  /\ rc_stderr' = rc_stderr \o
                 (IF caught.exit = None THEN <<TracebackLine>> ELSE caught.errors)
           /\ rc_pc' = IF caught.exit = None THEN "raised" ELSE "done"
           /\ rc_exit' = IF caught.exit = None THEN Some(1) ELSE caught.exit
    /\ UNCHANGED <<rcPeers, rc_release_name, rc_new_version_name, rc_creds, rc_versions,
                   rc_version_to_release, rc_new_name, rc_calls, rc_stdout>>

\* a remote call after the connection raises an exception that is not a
\* JIRAError: no except branch takes it, the exception leaves main()
RcUnhandled ==
    /\ rc_pc = "release" => ~rc_versions[The(rc_version_to_release)].released
    /\ \E step \in {<<"versions", "project_versions">>,
                   <<"release", "update">>,
                   <<"create", "create_version">>} :
         /\ rc_pc = step[1]
         /\ unexpected' = Append(unexpected, Raised("rc", step[2], OtherException))
    /\ rc_stderr' = Append(rc_stderr, TracebackLine)
    /\ rc_pc' = "raised"
    /\ rc_exit' = Some(1)
    /\ UNCHANGED <<rcPeers, rc_release_name, rc_new_version_name, rc_creds, rc_versions,
                   rc_version_to_release, rc_new_name, rc_calls, rc_stdout>>

RcNext ==
    \/ RcConnectUnexpected
    \/ RcUnhandled
    \/ RcMissingCredentials
    \/ RcConnect
    \/ RcConnectFails
    \/ RcFindVersion
    \/ RcFindVersionFails
    \/ RcSkipRelease
    \/ RcRelease
    \/ RcReleaseFails
    \/ RcChooseName
    \/ RcCreate
    \/ RcCreateAlreadyExists
    \/ RcCreateFails

SpecReleaseAndCreate == RcInit /\ [][RcNext]_vars

---------------------------------------------------------------------------
(* get-jira-release-notes/get_jira_release_notes.py and                   *)
(* publish-github-release/fetch_jira_release_notes.py: the formatters      *)
(*                                                                         *)
(* A text is the sequence of its lines and a line the sequence of the      *)
(* pieces its f-string puts together: the fixed parts and the values of    *)
(* the fields.  The empty line is <<>>.  Field values hold no newline.     *)

\* jira_url.rstrip('/')
RECURSIVE rstrip_slashes(_)
rstrip_slashes(s) ==
    IF s # <<>> /\ s[Len(s)] = "/"
    THEN rstrip_slashes(SubSeq(s, 1, Len(s) - 1))
    ELSE s

\* "\n".join(elements), each element given as its lines
RECURSIVE JoinNewline(_)
JoinNewline(elements) ==
    IF elements = <<>> THEN <<>>
    ELSE Head(elements) \o JoinNewline(Tail(elements))

\* `if not issues`
NoIssuesNever(issues) == FALSE

NoIssues(issues) == issues = <<>>

\* the defaultdict(list) filled by the loop over the issues
categorized_issues(issues) ==
    [ issue_type \in { issues[i].issuetype : i \in DOMAIN issues } |->
        SelectSeq(issues, LAMBDA issue : issue.issuetype = issue_type) ]

\* the categories the loop over category_order emits a section for
PopulatedCategoriesReversed(category_order, categorized) ==
    LET kept == SelectSeq(category_order, LAMBDA c : c \in DOMAIN categorized)
    IN  [ i \in DOMAIN kept |-> kept[Len(kept) + 1 - i] ]

PopulatedCategories(category_order, categorized) ==
    SelectSeq(category_order, LAMBDA category_name : category_name \in DOMAIN categorized)

issue_link(jira_url, issue) == rstrip_slashes(jira_url) \o <<"/browse/", issue.key>>

NoIssuesLine == <<"No issues found for this release.">>

MarkdownTitle(project_name, version) == <<"# Release notes - ", project_name, " - ", version>>

MarkdownIssueLine(jira_url, issue) ==
    <<"[", issue.key, "](">> \o issue_link(jira_url, issue) \o <<") ", issue.summary>>

\* a section that lists the first of its issues only
MarkdownSectionFirstIssueOnly(jira_url, category_name, section_issues) ==
    << << <<"### ", category_name>> >> >>
    \o << << MarkdownIssueLine(jira_url, section_issues[1]) >> >>
    \o << << <<>> >> >>

\* the elements appended for one category
MarkdownSection(jira_url, category_name, section_issues) ==
    << << <<"### ", category_name>> >> >>
    \o [ i \in DOMAIN section_issues |-> << MarkdownIssueLine(jira_url, section_issues[i]) >> ]
    \o << << <<>> >> >>

RECURSIVE MarkdownSections(_, _, _)
MarkdownSections(jira_url, categories, categorized) ==
    IF categories = <<>> THEN <<>>
    ELSE MarkdownSection(jira_url, Head(categories), categorized[Head(categories)])
         \o MarkdownSections(jira_url, Tail(categories), categorized)

format_notes_as_markdown(issues, jira_url, project_name, version, category_order) ==
    IF NoIssues(issues)
    THEN << MarkdownTitle(project_name, version), <<>>, NoIssuesLine >>
    ELSE LET categorized == categorized_issues(issues)
             markdown_lines ==
                 << << MarkdownTitle(project_name, version), <<>> >> >>
                 \o MarkdownSections(jira_url,
                                     PopulatedCategories(category_order, categorized),
                                     categorized)
         IN  JoinNewline(markdown_lines)

JiraTitle(project_name, version) == <<"h1. Release notes - ", project_name, " - ", version>>

\* the line of an issue without its summary
JiraIssueLineWithoutSummary(jira_url, issue) ==
    <<"[", issue.key, "|">> \o issue_link(jira_url, issue) \o <<"]">>

JiraIssueLine(jira_url, issue) ==
    <<"[", issue.key, "|">> \o issue_link(jira_url, issue) \o <<"] ", issue.summary>>

JiraSection(jira_url, category_name, section_issues) ==
    << << <<"h3. ", category_name>> >> >>
    \o [ i \in DOMAIN section_issues |-> << JiraIssueLine(jira_url, section_issues[i]) >> ]
    \o << << <<>> >> >>

RECURSIVE JiraSections(_, _, _)
JiraSections(jira_url, categories, categorized) ==
    IF categories = <<>> THEN <<>>
    ELSE JiraSection(jira_url, Head(categories), categorized[Head(categories)])
         \o JiraSections(jira_url, Tail(categories), categorized)

format_notes_as_jira_markup(issues, jira_url, project_name, version, category_order) ==
    IF NoIssues(issues)
    THEN << JiraTitle(project_name, version), <<>>, NoIssuesLine >>
    ELSE LET categorized == categorized_issues(issues)
             jira_lines ==
                 << << JiraTitle(project_name, version), <<>> >> >>
                 \o JiraSections(jira_url,
                                 PopulatedCategories(category_order, categorized),
                                 categorized)
         IN  JoinNewline(jira_lines)

\* the copy of format_notes_as_markdown in fetch_jira_release_notes.py
fetch_format_notes_as_markdown(issues, jira_url, project_name, version, category_order) ==
    IF NoIssues(issues)
    THEN << MarkdownTitle(project_name, version), <<>>, NoIssuesLine >>
    ELSE LET categorized == categorized_issues(issues)
             markdown_lines ==
                 << << MarkdownTitle(project_name, version), <<>> >> >>
                 \o MarkdownSections(jira_url,
                                     PopulatedCategories(category_order, categorized),
                                     categorized)
         IN  JoinNewline(markdown_lines)

\* bounds of the input space
MaxIssues == 3

MaxCategories == 3

\* the issue types of the issues, and the names a category order is made of:
\* Task is never in the order, Improvement never has an issue
IssueTypes == {"Bug", "New Feature", "Task"}

CategoryNames == {"New Feature", "Bug", "Improvement"}

\* the key of the i-th of n issues: keys ascending or descending
IssueKey(ascending, i, n) ==
    "T-" \o ToString(IF ascending THEN i ELSE n + 1 - i)

IssueLists ==
    { [ i \in 1..n |-> [ key       |-> IssueKey(ascending, i, n),
                         issuetype |-> types[i],
                         summary   |-> "about " \o IssueKey(ascending, i, n) ] ] :
        <<n, types, ascending>> \in
            UNION { {n} \X [1..n -> IssueTypes] \X BOOLEAN : n \in 0..MaxIssues } }

CategoryOrders ==
    UNION { [1..n -> CategoryNames] : n \in 0..MaxCategories }

JiraUrls == { <<"h">>, <<"h", "/", "/">> }

NotesInit ==
    /\ PayIdle /\ LockIdle /\ CvIdle /\ RcIdle /\ ItIdle /\ UtIdle /\ RjIdle /\ CrIdle /\ CiIdle /\ NsIdle /\ FnIdle /\ GnIdle /\ TcIdle /\ GaIdle /\ PbIdle
    /\ unexpected = <<>>
    /\ nt_issues \in IssueLists
    /\ nt_jira_url \in JiraUrls
    /\ nt_project_name = "Project"
    /\ nt_version = "1.0"
    /\ nt_category_order \in CategoryOrders
    /\ markdown_notes = None
    /\ jira_markup_notes = None
    /\ fetch_markdown_notes = None

ntInputs == <<nt_issues, nt_jira_url, nt_project_name, nt_version, nt_category_order>>

\* get_jira_release_notes.py, main(): the Markdown notes
FormatNotesAsMarkdown ==
    /\ markdown_notes = None
    /\ markdown_notes' = Some(format_notes_as_markdown(nt_issues, nt_jira_url,
                                  nt_project_name, nt_version, nt_category_order))
    /\ UNCHANGED <<ntInputs, jira_markup_notes, fetch_markdown_notes, ntOthers>>

\* get_jira_release_notes.py, main(): then the Jira markup notes
FormatNotesAsJiraMarkup ==
    /\ markdown_notes # None
    /\ jira_markup_notes = None
    /\ jira_markup_notes' = Some(format_notes_as_jira_markup(nt_issues, nt_jira_url,
                                     nt_project_name, nt_version, nt_category_order))
    /\ UNCHANGED <<ntInputs, markdown_notes, fetch_markdown_notes, ntOthers>>

\* fetch_jira_release_notes.py, main(): the Markdown notes
FetchFormatNotesAsMarkdown ==
    /\ fetch_markdown_notes = None
    /\ fetch_markdown_notes' = Some(fetch_format_notes_as_markdown(nt_issues, nt_jira_url,
                                        nt_project_name, nt_version, nt_category_order))
    /\ UNCHANGED <<ntInputs, markdown_notes, jira_markup_notes, ntOthers>>

NotesNext ==
    \/ FormatNotesAsMarkdown
    \/ FormatNotesAsJiraMarkup
    \/ FetchFormatNotesAsMarkdown

SpecNotes == NotesInit /\ [][NotesNext]_vars

---------------------------------------------------------------------------
(* update-integration-tickets/update_integration_tickets.py *)

SQS_PROJECT_KEY == <<"S", "O", "N", "A", "R">>

SC_PROJECT_KEY == <<"S", "C">>

\* getattr(obj, name, default): the attribute when the object has it
getattr(obj, name, default) == IF name \in DOMAIN obj THEN Some(obj[name]) ELSE default

\* s.startswith(prefix)
startswith(s, prefix) == Len(s) >= Len(prefix) /\ SubSeq(s, 1, Len(prefix)) = prefix

\* s.strip(), of the blanks a list of versions is written with
RECURSIVE strip(_)
strip(s) ==
    IF s # <<>> /\ s[1] = " " THEN strip(Tail(s))
    ELSE IF s # <<>> /\ s[Len(s)] = " " THEN strip(SubSeq(s, 1, Len(s) - 1))
    ELSE s

\* ', '.join(parts)
RECURSIVE JoinCommaSpace(_)
JoinCommaSpace(parts) ==
    IF Len(parts) = 0 THEN <<>>
    ELSE IF Len(parts) = 1 THEN parts[1]
    ELSE parts[1] \o <<",", " ">> \o JoinCommaSpace(Tail(parts))

\* f"{target_project_key}-", without the dash
KeyPrefixWithoutDash(target_project_key) == target_project_key

\* f"{target_project_key}-"
KeyPrefix(target_project_key) == target_project_key \o <<"-">>

\* getattr(link, 'outwardIssue', getattr(link, 'inwardIssue', None))
linked_issue(link) == getattr(link, "outwardIssue", getattr(link, "inwardIssue", None))

\* the list linked_tickets that the loop over the links builds
linked_tickets(release_issue, target_project_key) ==
    LET kept == SelectSeq(release_issue.issuelinks,
                    LAMBDA link :
                        /\ linked_issue(link) # None
                        /\ startswith(The(linked_issue(link)).key, KeyPrefix(target_project_key)))
    IN  [ i \in DOMAIN kept |-> The(linked_issue(kept[i])).key ]

\* find_linked_ticket(release_issue, target_project_key): the key found, or
\* the error message it exits 1 with
find_linked_ticket(release_issue, target_project_key) ==
    LET found == linked_tickets(release_issue, target_project_key)
    IN  IF Len(found) = 0
        THEN [exit |-> 1, error |-> [what |-> "No linked ticket found",
                                     project |-> target_project_key,
                                     ticket |-> release_issue.key]]
        ELSE IF Len(found) > 1
        THEN [exit |-> 1, error |-> [what |-> "Found multiple linked tickets",
                                     project |-> target_project_key,
                                     keys |-> JoinCommaSpace(found)]]
        ELSE [found_key |-> found[1]]

\* [{'name': v.strip()} for v in fix_versions_str.split(',')]
versions_list(fix_versions_str) ==
    LET parts == Split(fix_versions_str, ",")
    IN  [ i \in DOMAIN parts |-> [name |-> strip(parts[i])] ]

\* bound of the input space
MaxLinks == 3

\* the tickets a release ticket is linked to: SCA-1 is of neither project
LinkedKeys ==
    { <<"S", "O", "N", "A", "R", "-", "1">>, <<"S", "O", "N", "A", "R", "-", "2">>,
      <<"S", "C", "-", "1">>, <<"S", "C", "-", "2">>, <<"S", "C", "A", "-", "1">> }

\* a link carries the other ticket as outwardIssue or as inwardIssue
IssueLinks ==
    { d :> [key |-> k] : d \in {"outwardIssue", "inwardIssue"}, k \in LinkedKeys }

ReleaseTicketKey == <<"R", "E", "L", "-", "1">>

FixVersionsArguments ==
    { None, Some(<<>>), Some(<<"1", ".", "0", ",", " ", "1", ".", "1">>) }

ItInit ==
    /\ PayIdle /\ LockIdle /\ CvIdle /\ RcIdle /\ NotesIdle /\ UtIdle /\ RjIdle /\ CrIdle /\ CiIdle /\ NsIdle /\ FnIdle /\ GnIdle /\ TcIdle /\ GaIdle /\ PbIdle
    /\ unexpected = <<>>
    /\ it_creds \in BOOLEAN
    /\ it_links \in UNION { [1..n -> IssueLinks] : n \in 0..MaxLinks }
    /\ it_fix_versions \in FixVersionsArguments
    /\ it_pc = "connect"
    /\ it_release_issue = None
    /\ sqs_ticket_key = None
    /\ sc_ticket_key = None
    /\ it_calls = <<>>
    /\ it_stderr = <<>>
    /\ it_stdout = <<>>
    /\ it_exit = None

itInputs == <<it_creds, it_links, it_fix_versions>>

ItExit(code) ==
    /\ it_pc' = "done"
    /\ it_exit' = Some(code)

\* get_jira_instance: JIRA_USER or JIRA_TOKEN is missing
ItMissingCredentials ==
    /\ it_pc = "connect"
    /\ ~it_creds
    /\ ItExit(1)
    /\ UNCHANGED <<itInputs, it_release_issue, sqs_ticket_key, sc_ticket_key, it_calls,
                   it_stderr, it_stdout, itOthers>>

ItConnect ==
    /\ it_pc = "connect"
    /\ it_creds
    /\ it_pc' = "fetch"
    /\ UNCHANGED <<itInputs, it_release_issue, sqs_ticket_key, sc_ticket_key, it_calls,
                   it_stderr, it_stdout, it_exit, itOthers>>

\* JIRA(...) raises JIRAError
ItConnectFails ==
    /\ it_pc = "connect"
    /\ it_creds
    /\ ItExit(1)
    /\ UNCHANGED <<itInputs, it_release_issue, sqs_ticket_key, sc_ticket_key, it_calls,
                   it_stderr, it_stdout, itOthers>>

\* jira.issue(args.release_ticket_key, fields='issuelinks')
ItFetchReleaseTicket ==
    /\ it_pc = "fetch"
    /\ it_calls' = Append(it_calls, [op |-> "issue", key |-> ReleaseTicketKey, ok |-> TRUE])
    /\ it_release_issue' = Some([key |-> ReleaseTicketKey, issuelinks |-> it_links])
    /\ it_pc' = "find_sqs"
    /\ UNCHANGED <<itInputs, sqs_ticket_key, sc_ticket_key, it_stderr, it_stdout, it_exit,
                   itOthers>>

\* main(): jira.issue raises JIRAError, sys.exit(1)
ItFetchReleaseTicketFails ==
    /\ it_pc = "fetch"
    /\ \E e \in {NotFoundError, ServerError} :
         /\ it_calls' = Append(it_calls, [op |-> "issue", key |-> ReleaseTicketKey,
                                          ok |-> FALSE, error |-> e])
         /\ it_stderr' = Append(it_stderr, [what |-> "Could not retrieve issue",
                                            ticket |-> ReleaseTicketKey,
                                            status_code |-> e.status_code])
    /\ ItExit(1)
    /\ UNCHANGED <<itInputs, it_release_issue, sqs_ticket_key, sc_ticket_key, it_stdout,
                   itOthers>>

\* sqs_ticket_key = find_linked_ticket(release_issue, SQS_PROJECT_KEY)
ItFindSqsTicket ==
    /\ it_pc = "find_sqs"
    /\ LET result == find_linked_ticket(The(it_release_issue), SQS_PROJECT_KEY)
       IN  /\ "found_key" \in DOMAIN result
           /\ sqs_ticket_key' = Some(result.found_key)
    /\ it_pc' = "find_sc"
    /\ UNCHANGED <<itInputs, it_release_issue, sc_ticket_key, it_calls, it_stderr, it_stdout,
                   it_exit, itOthers>>

ItFindSqsTicketFails ==
    /\ it_pc = "find_sqs"
    /\ LET result == find_linked_ticket(The(it_release_issue), SQS_PROJECT_KEY)
       IN  /\ "exit" \in DOMAIN result
           /\ it_stderr' = Append(it_stderr, result.error)
           /\ ItExit(result.exit)
    /\ UNCHANGED <<itInputs, it_release_issue, sqs_ticket_key, sc_ticket_key, it_calls,
                   it_stdout, itOthers>>

\* sc_ticket_key = find_linked_ticket(release_issue, SC_PROJECT_KEY)
ItFindScTicket ==
    /\ it_pc = "find_sc"
    /\ LET result == find_linked_ticket(The(it_release_issue), SC_PROJECT_KEY)
       IN  /\ "found_key" \in DOMAIN result
           /\ sc_ticket_key' = Some(result.found_key)
    /\ it_pc' = "fix_versions"
    /\ UNCHANGED <<itInputs, it_release_issue, sqs_ticket_key, it_calls, it_stderr, it_stdout,
                   it_exit, itOthers>>

ItFindScTicketFails ==
    /\ it_pc = "find_sc"
    /\ LET result == find_linked_ticket(The(it_release_issue), SC_PROJECT_KEY)
       IN  /\ "exit" \in DOMAIN result
           /\ it_stderr' = Append(it_stderr, result.error)
           /\ ItExit(result.exit)
    /\ UNCHANGED <<itInputs, it_release_issue, sqs_ticket_key, sc_ticket_key, it_calls,
                   it_stdout, itOthers>>

\* `if not fix_versions_str`: not given, or empty
\* a test that takes an empty list for a list
FixVersionsMissing(fix_versions_str) == fix_versions_str = None

NoFixVersions(fix_versions_str) ==
    IF fix_versions_str = None THEN TRUE ELSE The(fix_versions_str) = <<>>

\* the two lines main() prints at its end
ItPrint ==
    /\ it_stdout' = << <<"sqs_ticket_key", The(sqs_ticket_key)>>,
                       <<"sc_ticket_key", The(sc_ticket_key)>> >>
    /\ ItExit(0)

\* update_sqs_fix_versions returns at once, and main() prints
ItSkipFixVersions ==
    /\ it_pc = "fix_versions"
    /\ NoFixVersions(it_fix_versions)
    /\ ItPrint
    /\ UNCHANGED <<itInputs, it_release_issue, sqs_ticket_key, sc_ticket_key, it_calls,
                   it_stderr, itOthers>>

\* update_sqs_fix_versions: jira.issue(ticket_key)
ItFetchSqsTicket ==
    /\ it_pc = "fix_versions"
    /\ ~NoFixVersions(it_fix_versions)
    /\ it_calls' = Append(it_calls, [op |-> "issue", key |-> The(sqs_ticket_key), ok |-> TRUE])
    /\ it_pc' = "update"
    /\ UNCHANGED <<itInputs, it_release_issue, sqs_ticket_key, sc_ticket_key, it_stderr,
                   it_stdout, it_exit, itOthers>>

\* update_sqs_fix_versions: jira.issue raises JIRAError, a warning, and main()
\* prints
ItFetchSqsTicketFails ==
    /\ it_pc = "fix_versions"
    /\ ~NoFixVersions(it_fix_versions)
    /\ \E e \in {NotFoundError, ServerError} :
         it_calls' = Append(it_calls, [op |-> "issue", key |-> The(sqs_ticket_key),
                                       ok |-> FALSE, error |-> e])
    /\ it_stderr' = Append(it_stderr, [what |-> "Could not update fix versions",
                                       ticket |-> The(sqs_ticket_key)])
    /\ ItPrint
    /\ UNCHANGED <<itInputs, it_release_issue, sqs_ticket_key, sc_ticket_key, itOthers>>

UpdateCall(ok) ==
    [op |-> "update", key |-> The(sqs_ticket_key),
     fixVersions |-> versions_list(The(it_fix_versions)), ok |-> ok]

\* update_sqs_fix_versions: issue.update(fields={'fixVersions': versions_list}),
\* and main() prints
ItUpdateFixVersions ==
    /\ it_pc = "update"
    /\ it_calls' = Append(it_calls, UpdateCall(TRUE))
    /\ ItPrint
    /\ UNCHANGED <<itInputs, it_release_issue, sqs_ticket_key, sc_ticket_key, it_stderr,
                   itOthers>>

\* update_sqs_fix_versions: issue.update raises JIRAError, a warning, and
\* main() prints
ItUpdateFixVersionsFails ==
    /\ it_pc = "update"
    /\ it_calls' = Append(it_calls, UpdateCall(FALSE))
    /\ it_stderr' = Append(it_stderr, [what |-> "Could not update fix versions",
                                       ticket |-> The(sqs_ticket_key)])
    /\ ItPrint
    /\ UNCHANGED <<itInputs, it_release_issue, sqs_ticket_key, sc_ticket_key, itOthers>>

\* get_jira_instance: the constructor raises an exception that is not a
\* JIRAError; this get_jira_instance has no except Exception, so that the
\* exception leaves main()
ItConnectUnexpected ==
    /\ it_pc = "connect"
    /\ it_creds
    /\ unexpected' = Append(unexpected, Raised("it", "JIRA", OtherException))
    /\ it_stderr' = Append(it_stderr, [what |-> "Traceback"])
    /\ it_pc' = "raised"
    /\ it_exit' = Some(1)
    /\ UNCHANGED <<itPeers, it_creds, it_links, it_fix_versions, it_release_issue,
                   sqs_ticket_key, sc_ticket_key, it_calls, it_stdout>>

\* a remote call after the connection raises an exception that is not a
\* JIRAError: no except branch takes it, the exception leaves main()
ItUnhandled ==
    /\ it_pc = "fix_versions" => ~NoFixVersions(it_fix_versions)
    /\ \E step \in {<<"fetch", "issue">>,
                   <<"fix_versions", "issue">>,
                   <<"update", "update">>} :
         /\ it_pc = step[1]
         /\ unexpected' = Append(unexpected, Raised("it", step[2], OtherException))
    /\ it_stderr' = Append(it_stderr, [what |-> "Traceback"])
    /\ it_pc' = "raised"
    /\ it_exit' = Some(1)
    /\ UNCHANGED <<itPeers, it_creds, it_links, it_fix_versions, it_release_issue,
                   sqs_ticket_key, sc_ticket_key, it_calls, it_stdout>>

ItNext ==
    \/ ItConnectUnexpected
    \/ ItUnhandled
    \/ ItMissingCredentials
    \/ ItConnect
    \/ ItConnectFails
    \/ ItFetchReleaseTicket
    \/ ItFetchReleaseTicketFails
    \/ ItFindSqsTicket
    \/ ItFindSqsTicketFails
    \/ ItFindScTicket
    \/ ItFindScTicketFails
    \/ ItSkipFixVersions
    \/ ItFetchSqsTicket
    \/ ItFetchSqsTicketFails
    \/ ItUpdateFixVersions
    \/ ItUpdateFixVersionsFails

SpecIntegrationTickets == ItInit /\ [][ItNext]_vars

---------------------------------------------------------------------------
(* update-release-ticket-status/update_release_ticket.py *)

\* `if assignee_email`, taken whatever the argument
AssigneeGivenAlways(assignee_email) == TRUE

\* `if assignee_email`: given and not empty
AssigneeGiven(assignee_email) ==
    IF assignee_email = None THEN FALSE ELSE The(assignee_email) # ""

\* the choices of --status
StatusChoices == {"Start Progress", "Technical Release Done"}

AssigneeArguments == {None, Some(""), Some("jane@example.com"), Some("joe@example.com")}

\* the ticket in Jira: None when there is no ticket with that key; a ticket's
\* assignee is None when it is assigned to nobody
TicketsInJira ==
    {None} \cup { Some([status |-> s, assignee |-> a]) :
                    s \in {"Open", "Start Progress"}, a \in {None, Some("joe@example.com")} }

\* the answers of a tracker that rejects a transition
TransitionErrors ==
    { [status_code |-> 400, text |-> "Transition is not valid for the current status"],
      [status_code |-> 403, text |-> "No permission to transition the issue"] }

UtTicketKey == "REL-123"

\* what the except branch of jira_client.issue writes
FetchErrorOutput(ticket_key, e) ==
    IF e.status_code = 404
    THEN << <<"Error: Ticket '", ticket_key, "' not found.">> >>
    ELSE << <<"Error: Failed to fetch ticket '", ticket_key, "'. Status: ", ToString(e.status_code)>>,
            <<"Response text: ", e.text>> >>

\* what the except branch of assign_issue writes
AssignErrorOutput(assignee_email, e) ==
    << <<"Error: Failed to assign ticket to '",
         IF assignee_email = None THEN "None" ELSE The(assignee_email),
         "'. Status: ", ToString(e.status_code)>>,
       <<"Response text: ", e.text>>,
       <<"Please ensure the user exists and has assignable permissions for this project.">> >>

\* the except branch of transition_issue, without the line of the response
TransitionErrorOutputWithoutText(new_status, e) ==
    << <<"Error: Failed to transition ticket to '", new_status, "'. Status: ", ToString(e.status_code)>>,
       <<"Please ensure this is a valid transition from the ticket's current status.">> >>

\* what the except branch of transition_issue writes
TransitionErrorOutput(new_status, e) ==
    << <<"Error: Failed to transition ticket to '", new_status, "'. Status: ", ToString(e.status_code)>>,
       <<"Response text: ", e.text>>,
       <<"Please ensure this is a valid transition from the ticket's current status.">> >>

UtInit ==
    /\ PayIdle /\ LockIdle /\ CvIdle /\ RcIdle /\ NotesIdle /\ ItIdle /\ RjIdle /\ CrIdle /\ CiIdle /\ NsIdle /\ FnIdle /\ GnIdle /\ TcIdle /\ GaIdle /\ PbIdle
    /\ unexpected = <<>>
    /\ ut_creds \in BOOLEAN
    /\ ut_status \in StatusChoices
    /\ ut_assignee \in AssigneeArguments
    /\ ut_ticket \in TicketsInJira
    /\ ut_pc = "connect"
    /\ ut_calls = <<>>
    /\ ut_stdout = <<>>
    /\ ut_stderr = <<>>
    /\ ut_exit = None

utInputs == <<ut_creds, ut_status, ut_assignee>>

UtExit(code) ==
    /\ ut_pc' = "done"
    /\ ut_exit' = Some(code)

\* get_jira_instance: JIRA_USER or JIRA_TOKEN is missing
UtMissingCredentials ==
    /\ ut_pc = "connect"
    /\ ~ut_creds
    /\ UtExit(1)
    /\ UNCHANGED <<utInputs, ut_ticket, ut_calls, ut_stdout, ut_stderr, utOthers>>

UtConnect ==
    /\ ut_pc = "connect"
    /\ ut_creds
    /\ ut_pc' = "fetch"
    /\ UNCHANGED <<utInputs, ut_ticket, ut_calls, ut_stdout, ut_stderr, ut_exit, utOthers>>

\* JIRA(...) raises
UtConnectFails ==
    /\ ut_pc = "connect"
    /\ ut_creds
    /\ UtExit(1)
    /\ UNCHANGED <<utInputs, ut_ticket, ut_calls, ut_stdout, ut_stderr, utOthers>>

\* update_ticket_status: jira_client.issue(ticket_key)
UtFetchTicket ==
    /\ ut_pc = "fetch"
    /\ ut_ticket # None
    /\ ut_calls' = Append(ut_calls, [op |-> "issue", ok |-> TRUE])
    /\ ut_pc' = IF AssigneeGiven(ut_assignee) THEN "assign" ELSE "transition"
    /\ UNCHANGED <<utInputs, ut_ticket, ut_stdout, ut_stderr, ut_exit, utOthers>>

\* jira_client.issue raises JIRAError: 404 when there is no such ticket, or
\* another status
UtFetchTicketFails ==
    /\ ut_pc = "fetch"
    /\ \E e \in IF ut_ticket = None THEN {NotFoundError} ELSE {ServerError} :
         /\ ut_calls' = Append(ut_calls, [op |-> "issue", ok |-> FALSE, error |-> e])
         /\ ut_stderr' = ut_stderr \o FetchErrorOutput(UtTicketKey, e)
    /\ UtExit(1)
    /\ UNCHANGED <<utInputs, ut_ticket, ut_stdout, utOthers>>

\* jira_client.assign_issue(ticket_key, assignee_email)
UtAssign ==
    /\ ut_pc = "assign"
    /\ ut_calls' = Append(ut_calls, [op |-> "assign_issue", ok |-> TRUE])
    /\ ut_ticket' = Some([The(ut_ticket) EXCEPT !.assignee = ut_assignee])
    /\ ut_pc' = "transition"
    /\ UNCHANGED <<utInputs, ut_stdout, ut_stderr, ut_exit, utOthers>>

UtAssignFails ==
    /\ ut_pc = "assign"
    /\ \E e \in {NotFoundError, ServerError} :
         /\ ut_calls' = Append(ut_calls, [op |-> "assign_issue", ok |-> FALSE, error |-> e])
         /\ ut_stderr' = ut_stderr \o AssignErrorOutput(ut_assignee, e)
    /\ UtExit(1)
    /\ UNCHANGED <<utInputs, ut_ticket, ut_stdout, utOthers>>

\* jira_client.transition_issue(issue, new_status), and main() returns
UtTransition ==
    /\ ut_pc = "transition"
    /\ ut_calls' = Append(ut_calls, [op |-> "transition_issue", ok |-> TRUE])
    /\ ut_ticket' = Some([The(ut_ticket) EXCEPT !.status = ut_status])
    /\ UtExit(0)
    /\ UNCHANGED <<utInputs, ut_stdout, ut_stderr, utOthers>>

\* jira_client.transition_issue raises JIRAError: the tracker rejects the
\* transition
UtTransitionFails ==
    /\ ut_pc = "transition"
    /\ \E e \in TransitionErrors :
         /\ ut_calls' = Append(ut_calls, [op |-> "transition_issue", ok |-> FALSE, error |-> e])
         /\ ut_stderr' = ut_stderr \o TransitionErrorOutput(ut_status, e)
    /\ UtExit(1)
    /\ UNCHANGED <<utInputs, ut_ticket, ut_stdout, utOthers>>

\* get_jira_instance: the constructor raises an exception that is not a
\* JIRAError: except Exception, a message and sys.exit(1)
UtConnectUnexpected ==
    /\ ut_pc = "connect"
    /\ ut_creds
    /\ unexpected' = Append(unexpected, Raised("ut", "JIRA", OtherException))
    /\ LET caught == connection_error_caught(OtherException)
       IN  /\ ut_stderr' = ut_stderr \o
                 (IF caught.exit = None THEN <<TracebackLine>> ELSE caught.errors)
           /\ ut_pc' = IF caught.exit = None THEN "raised" ELSE "done"
           /\ ut_exit' = IF caught.exit = None THEN Some(1) ELSE caught.exit
    /\ UNCHANGED <<utPeers, ut_creds, ut_status, ut_assignee, ut_ticket, ut_calls,
                   ut_stdout>>

\* a remote call after the connection raises an exception that is not a
\* JIRAError: no except branch takes it, the exception leaves main()
UtUnhandled ==
    /\ \E step \in {<<"fetch", "issue">>,
                   <<"assign", "assign_issue">>,
                   <<"transition", "transition_issue">>} :
         /\ ut_pc = step[1]
         /\ unexpected' = Append(unexpected, Raised("ut", step[2], OtherException))
    /\ ut_stderr' = Append(ut_stderr, TracebackLine)
    /\ ut_pc' = "raised"
    /\ ut_exit' = Some(1)
    /\ UNCHANGED <<utPeers, ut_creds, ut_status, ut_assignee, ut_ticket, ut_calls,
                   ut_stdout>>

UtNext ==
    \/ UtConnectUnexpected
    \/ UtUnhandled
    \/ UtMissingCredentials
    \/ UtConnect
    \/ UtConnectFails
    \/ UtFetchTicket
    \/ UtFetchTicketFails
    \/ UtAssign
    \/ UtAssignFails
    \/ UtTransition
    \/ UtTransitionFails

SpecUpdateTicket == UtInit /\ [][UtNext]_vars

---------------------------------------------------------------------------
(* release-jira-version/release_jira_version.py *)

\* bound of the input space: the number of versions of the project
MaxVersions == 2

VersionNames == {"1.0.0", "2.0.0"}

\* date.today().strftime('%Y-%m-%d')
Today == "2025-08-15"

\* the version lists of a project: names may repeat, ids follow the position
VersionLists ==
    { [ i \in DOMAIN l |-> [id |-> i, name |-> l[i].name, released |-> l[i].released] ] :
        l \in Strings([name : VersionNames, released : BOOLEAN], MaxVersions) }

\* the loop over project.versions without its break: the last version of that name
LastNamed(versions, name) ==
    LET hits == { i \in DOMAIN versions : versions[i].name = name }
    IN  IF hits = {} THEN None ELSE Some(CHOOSE i \in hits : \A j \in hits : i >= j)

\* a released test that never holds
AlreadyReleasedNever(version) == FALSE

\* if version_to_release.released
AlreadyReleased(version) == version.released

\* for version in project.versions: if version.name == name: ...; break
FirstVersionNamed(versions, name) == FirstNamed(versions, name)

RjInit ==
    /\ PayIdle /\ LockIdle /\ CvIdle /\ RcIdle /\ NotesIdle /\ ItIdle /\ UtIdle /\ CrIdle /\ CiIdle /\ NsIdle /\ FnIdle /\ GnIdle /\ TcIdle /\ GaIdle /\ PbIdle
    /\ unexpected = <<>>
    /\ rj_version_name \in VersionNames
    /\ rj_creds \in BOOLEAN
    /\ rj_versions \in VersionLists
    /\ rj_pc = "connect"
    /\ rj_version_to_release = None
    /\ rj_calls = <<>>
    /\ rj_stderr = <<>>
    /\ rj_exit = None

rjInputs == <<rj_version_name, rj_creds>>

RjExit(code) ==
    /\ rj_pc' = "done"
    /\ rj_exit' = Some(code)

\* get_jira_instance: the credentials are missing, sys.exit(1) before any call
RjMissingCredentials ==
    /\ rj_pc = "connect"
    /\ ~rj_creds
    /\ rj_stderr' = Append(rj_stderr,
                      <<"Error: JIRA_USER and JIRA_TOKEN environment variables must be set.">>)
    /\ RjExit(1)
    /\ UNCHANGED <<rjInputs, rj_versions, rj_version_to_release, rj_calls, rjOthers>>

\* get_jira_instance: JIRA(...) and server_info() succeed
RjConnect ==
    /\ rj_pc = "connect"
    /\ rj_creds
    /\ rj_calls' = Append(rj_calls, [op |-> "server_info", ok |-> TRUE])
    /\ rj_pc' = "project"
    /\ UNCHANGED <<rjInputs, rj_versions, rj_version_to_release, rj_stderr, rj_exit, rjOthers>>

\* get_jira_instance: JIRA(...) or server_info() raises, sys.exit(1)
RjConnectFails ==
    /\ rj_pc = "connect"
    /\ rj_creds
    /\ rj_calls' = Append(rj_calls, [op |-> "server_info", ok |-> FALSE, error |-> ServerError])
    /\ rj_stderr' = rj_stderr \o
                      << <<"Error: JIRA authentication failed. Status: ",
                           ToString(ServerError.status_code)>>,
                         <<"Response text: ", ServerError.text>> >>
    /\ RjExit(1)
    /\ UNCHANGED <<rjInputs, rj_versions, rj_version_to_release, rjOthers>>

\* main(): jira.project returns, the first version of that name is taken;
\* sys.exit(1) when there is none
RjFindVersion ==
    /\ rj_pc = "project"
    /\ rj_calls' = Append(rj_calls, [op |-> "project", ok |-> TRUE])
    /\ LET found == FirstVersionNamed(rj_versions, rj_version_name)
       IN  IF found = None
           THEN /\ rj_stderr' = Append(rj_stderr,
                                  <<"Error: Version '", rj_version_name,
                                    "' not found in project '", ProjectKey, "'.">>)
                /\ RjExit(1)
                /\ UNCHANGED rj_version_to_release
           ELSE /\ rj_version_to_release' = found
                /\ rj_pc' = "release"
                /\ UNCHANGED <<rj_stderr, rj_exit>>
    /\ UNCHANGED <<rjInputs, rj_versions, rjOthers>>

\* main(): jira.project raises JIRAError outside any try: the exception leaves
\* main(), the interpreter prints the traceback and ends with status 1
RjProjectRaises ==
    /\ rj_pc = "project"
    /\ \E e \in {ProjectNotFoundError, ServerError} :
         /\ rj_calls' = Append(rj_calls, [op |-> "project", ok |-> FALSE, error |-> e])
         /\ rj_stderr' = Append(rj_stderr, <<"Traceback (most recent call last):">>)
    /\ rj_pc' = "raised"
    /\ rj_exit' = Some(1)
    /\ UNCHANGED <<rjInputs, rj_versions, rj_version_to_release, rjOthers>>

\* main(): the version is already released: a warning, nothing is sent
RjSkipRelease ==
    /\ rj_pc = "release"
    /\ AlreadyReleased(rj_versions[The(rj_version_to_release)])
    /\ rj_stderr' = Append(rj_stderr,
                      <<"Warning: Version '", rj_versions[The(rj_version_to_release)].name,
                        "' is already released. Skipping release step.">>)
    /\ RjExit(0)
    /\ UNCHANGED <<rjInputs, rj_versions, rj_version_to_release, rj_calls, rjOthers>>

RjUpdateCall(ok) ==
    [op |-> "update", ok |-> ok, id |-> rj_versions[The(rj_version_to_release)].id,
     released |-> TRUE, releaseDate |-> Today]

\* main(): version_to_release.update(released=True, releaseDate=today) succeeds
RjRelease ==
    /\ rj_pc = "release"
    /\ ~AlreadyReleased(rj_versions[The(rj_version_to_release)])
    /\ rj_versions' = [rj_versions EXCEPT ![The(rj_version_to_release)].released = TRUE]
    /\ rj_calls' = Append(rj_calls, RjUpdateCall(TRUE))
    /\ RjExit(0)
    /\ UNCHANGED <<rjInputs, rj_version_to_release, rj_stderr, rjOthers>>

\* main(): the update raises JIRAError, sys.exit(1)
RjReleaseFails ==
    /\ rj_pc = "release"
    /\ ~AlreadyReleased(rj_versions[The(rj_version_to_release)])
    /\ rj_calls' = Append(rj_calls, RjUpdateCall(FALSE))
    /\ rj_stderr' = Append(rj_stderr,
                      <<"Error: Failed to release version. Status: ",
                        ToString(ServerError.status_code), ", Text: ", ServerError.text>>)
    /\ RjExit(1)
    /\ UNCHANGED <<rjInputs, rj_versions, rj_version_to_release, rjOthers>>

\* get_jira_instance: the constructor raises an exception that is not a
\* JIRAError: except Exception, a message and sys.exit(1)
RjConnectUnexpected ==
    /\ rj_pc = "connect"
    /\ rj_creds
    /\ unexpected' = Append(unexpected, Raised("rj", "JIRA", OtherException))
    /\ LET caught == connection_error_caught(OtherException)
       IN  /\ rj_stderr' = rj_stderr \o
                 (IF caught.exit = None THEN <<TracebackLine>> ELSE caught.errors)
           /\ rj_pc' = IF caught.exit = None THEN "raised" ELSE "done"
           /\ rj_exit' = IF caught.exit = None THEN Some(1) ELSE caught.exit
    /\ UNCHANGED <<rjPeers, rj_version_name, rj_creds, rj_versions, rj_version_to_release,
                   rj_calls>>

\* a remote call after the connection raises an exception that is not a
\* JIRAError: no except branch takes it, the exception leaves main()
RjUnhandled ==
    /\ rj_pc = "release" => ~AlreadyReleased(rj_versions[The(rj_version_to_release)])
    /\ \E step \in {<<"project", "project">>, <<"release", "update">>} :
         /\ rj_pc = step[1]
         /\ unexpected' = Append(unexpected, Raised("rj", step[2], OtherException))
    /\ rj_stderr' = Append(rj_stderr, TracebackLine)
    /\ rj_pc' = "raised"
    /\ rj_exit' = Some(1)
    /\ UNCHANGED <<rjPeers, rj_version_name, rj_creds, rj_versions, rj_version_to_release,
                   rj_calls>>

RjNext ==
    \/ RjConnectUnexpected
    \/ RjUnhandled
    \/ RjMissingCredentials
    \/ RjConnect
    \/ RjConnectFails
    \/ RjFindVersion
    \/ RjProjectRaises
    \/ RjSkipRelease
    \/ RjRelease
    \/ RjReleaseFails

SpecReleaseVersion == RjInit /\ [][RjNext]_vars

\* both release scripts; the release-and-create runs on names of up to
\* MaxShortLen characters
MaxShortLen == 2

ReleaseScriptsInit ==
    \/ RcInit /\ Len(rc_release_name) <= MaxShortLen
    \/ RjInit

ReleaseScriptsNext == RcNext \/ RjNext

SpecReleaseScripts == ReleaseScriptsInit /\ [][ReleaseScriptsNext]_vars

---------------------------------------------------------------------------
(* create-jira-release-ticket/create_release_ticket.py *)

JIRA_PROD_URL == "https://sonarsource.atlassian.net/"

\* the key Jira gives the new ticket
NewTicketKey == "REL-456"

\* [v for v in versions if not v.released]
unreleased_versions(versions) == SelectSeq(versions, LAMBDA v : ~v.released)

\* [v for v in versions if v.name == jira_release_name]
found_versions(versions, jira_release_name) ==
    SelectSeq(versions, LAMBDA v : v.name = jira_release_name)

\* _get_specific_jira_release: the version returned, or the errors written
\* before sys.exit(1)
_get_specific_jira_release(project_key, jira_release_name, versions) ==
    LET found == found_versions(versions, jira_release_name)
    IN  IF found = <<>>
        THEN [target |-> None,
              errors |-> << <<"Error: Specified Jira release '", jira_release_name,
                              "' not found for project '", project_key, "'.">> >>]
        ELSE IF found[1].released
        THEN [target |-> None,
              errors |-> << <<"Error: The specified version '", jira_release_name,
                              "' has already been released.">>,
                            <<"Please provide an unreleased version or omit the 'jira_release_name' parameter.">> >>]
        ELSE [target |-> Some(found[1]), errors |-> <<>>]

\* a lookup that settles for the first unreleased version when there are several
_get_first_unreleased_version(project_key, versions) ==
    LET unreleased == unreleased_versions(versions)
    IN  IF unreleased = <<>>
        THEN [target |-> None,
              errors |-> << <<"Error: No unreleased versions found for project '",
                              project_key, "'.">> >>]
        ELSE [target |-> Some(unreleased[1]), errors |-> <<>>]

\* _get_unreleased_version: the version returned, or the errors written before
\* sys.exit(1)
_get_unreleased_version(project_key, versions) ==
    LET unreleased == unreleased_versions(versions)
    IN  IF unreleased = <<>>
        THEN [target |-> None,
              errors |-> << <<"Error: No unreleased versions found for project '",
                              project_key, "'.">>,
                            <<"Please ensure there is at least one unreleased version in Jira.">> >>]
        ELSE IF Len(unreleased) > 1
        THEN [target |-> None,
              errors |-> << <<"Error: Multiple unreleased versions found for project '",
                              project_key, "'.">>,
                            <<"Please specify which version to release using the '--jira-release-name' argument.">>,
                            <<"Found versions:">> >>
                         \o [ i \in DOMAIN unreleased |-> <<"  - ", unreleased[i].name>> ]]
        ELSE [target |-> Some(unreleased[1]), errors |-> <<>>]

\* get_jira_release_notes_info: the link to the release notes of the version
version_link(jira_server_url, project_key, target_version) ==
    <<jira_server_url, "/projects/", project_key, "/versions/", ToString(target_version.id),
      "/tab/release-report-all-issues">>

CrInit ==
    /\ PayIdle /\ LockIdle /\ CvIdle /\ RcIdle /\ NotesIdle /\ ItIdle /\ UtIdle /\ RjIdle /\ CiIdle /\ NsIdle /\ FnIdle /\ GnIdle /\ TcIdle /\ GaIdle /\ PbIdle
    /\ unexpected = <<>>
    /\ cr_release_name \in {""} \cup VersionNames
    /\ cr_creds \in BOOLEAN
    /\ cr_versions \in VersionLists
    /\ cr_pc = "connect"
    /\ cr_target_version = None
    /\ cr_calls = <<>>
    /\ cr_stderr = <<>>
    /\ cr_stdout = <<>>
    /\ cr_exit = None

crInputs == <<cr_release_name, cr_creds, cr_versions>>

CrExit(code) ==
    /\ cr_pc' = "done"
    /\ cr_exit' = Some(code)

\* get_jira_instance: the credentials are missing, sys.exit(1) before any call
CrMissingCredentials ==
    /\ cr_pc = "connect"
    /\ ~cr_creds
    /\ cr_stderr' = Append(cr_stderr,
                      <<"Error: JIRA_USER and JIRA_TOKEN environment variables must be set.">>)
    /\ CrExit(1)
    /\ UNCHANGED <<crInputs, cr_target_version, cr_calls, cr_stdout, crOthers>>

\* get_jira_instance: JIRA(..., get_server_info=True) succeeds
CrConnect ==
    /\ cr_pc = "connect"
    /\ cr_creds
    /\ cr_calls' = Append(cr_calls, [op |-> "server_info", ok |-> TRUE])
    /\ cr_pc' = "versions"
    /\ UNCHANGED <<crInputs, cr_target_version, cr_stderr, cr_stdout, cr_exit, crOthers>>

\* get_jira_instance: JIRA(...) raises, sys.exit(1)
CrConnectFails ==
    /\ cr_pc = "connect"
    /\ cr_creds
    /\ cr_calls' = Append(cr_calls, [op |-> "server_info", ok |-> FALSE, error |-> ServerError])
    /\ cr_stderr' = cr_stderr \o
                      << <<"Error: JIRA authentication failed. Status: ",
                           ToString(ServerError.status_code)>>,
                         <<"Please check your JIRA URL, user, and token.">>,
                         <<"Response text: ", ServerError.text>> >>
    /\ CrExit(1)
    /\ UNCHANGED <<crInputs, cr_target_version, cr_stdout, crOthers>>

\* get_jira_release_notes_info: project_versions returns and the version is
\* looked up, by name when a name is given; sys.exit(1) when the lookup fails
CrFindVersion ==
    /\ cr_pc = "versions"
    /\ cr_calls' = Append(cr_calls, [op |-> "project_versions", ok |-> TRUE])
    /\ LET looked_up == IF cr_release_name # ""
                        THEN _get_specific_jira_release(ProjectKey, cr_release_name, cr_versions)
                        ELSE _get_unreleased_version(ProjectKey, cr_versions)
       IN  /\ cr_target_version' = looked_up.target
           /\ cr_stderr' = cr_stderr \o looked_up.errors
           /\ IF looked_up.target = None
              THEN CrExit(1)
              ELSE cr_pc' = "create" /\ UNCHANGED cr_exit
    /\ UNCHANGED <<crInputs, cr_stdout, crOthers>>

\* get_jira_release_notes_info: project_versions raises JIRAError, sys.exit(1)
CrFetchVersionsFails ==
    /\ cr_pc = "versions"
    /\ \E e \in {ProjectNotFoundError, ServerError} :
         /\ cr_calls' = Append(cr_calls, [op |-> "project_versions", ok |-> FALSE, error |-> e])
         /\ cr_stderr' = Append(cr_stderr,
                           IF e.status_code = 404
                           THEN <<"Error: Project with key '", ProjectKey, "' not found.">>
                           ELSE <<"Error: Failed to fetch versions for project '", ProjectKey,
                                  "'. Status: ", ToString(e.status_code)>>)
    /\ CrExit(1)
    /\ UNCHANGED <<crInputs, cr_target_version, cr_stdout, crOthers>>

CrCreateCall(ok) ==
    [op |-> "create_issue", ok |-> ok,
     link |-> version_link(JIRA_PROD_URL, ProjectKey, The(cr_target_version))]

\* create_release_ticket and the end of main(): create_issue succeeds and the
\* key of the ticket is printed
CrCreateTicket ==
    /\ cr_pc = "create"
    /\ cr_calls' = Append(cr_calls, CrCreateCall(TRUE))
    /\ cr_stdout' = Append(cr_stdout, <<NewTicketKey>>)
    /\ CrExit(0)
    /\ UNCHANGED <<crInputs, cr_target_version, cr_stderr, crOthers>>

\* create_release_ticket: create_issue raises JIRAError, sys.exit(1)
CrCreateTicketFails ==
    /\ cr_pc = "create"
    /\ cr_calls' = Append(cr_calls, CrCreateCall(FALSE))
    /\ cr_stderr' = cr_stderr \o
                      << <<"Error: Failed to create Jira ticket. Status: ",
                           ToString(ServerError.status_code)>>,
                         <<"Response text: ", ServerError.text>> >>
    /\ CrExit(1)
    /\ UNCHANGED <<crInputs, cr_target_version, cr_stdout, crOthers>>

\* get_jira_instance: the constructor raises an exception that is not a
\* JIRAError: except Exception, a message and sys.exit(1)
CrConnectUnexpected ==
    /\ cr_pc = "connect"
    /\ cr_creds
    /\ unexpected' = Append(unexpected, Raised("cr", "JIRA", OtherException))
    /\ LET caught == connection_error_caught(OtherException)
       IN  /\ cr_stderr' = cr_stderr \o
                 (IF caught.exit = None THEN <<TracebackLine>> ELSE caught.errors)
           /\ cr_pc' = IF caught.exit = None THEN "raised" ELSE "done"
           /\ cr_exit' = IF caught.exit = None THEN Some(1) ELSE caught.exit
    /\ UNCHANGED <<crPeers, cr_release_name, cr_creds, cr_versions, cr_target_version,
                   cr_calls, cr_stdout>>

\* a remote call after the connection raises an exception that is not a
\* JIRAError: no except branch takes it, the exception leaves main()
CrUnhandled ==
    /\ \E step \in {<<"versions", "project_versions">>,
                   <<"create", "create_issue">>} :
         /\ cr_pc = step[1]
         /\ unexpected' = Append(unexpected, Raised("cr", step[2], OtherException))
    /\ cr_stderr' = Append(cr_stderr, TracebackLine)
    /\ cr_pc' = "raised"
    /\ cr_exit' = Some(1)
    /\ UNCHANGED <<crPeers, cr_release_name, cr_creds, cr_versions, cr_target_version,
                   cr_calls, cr_stdout>>

CrNext ==
    \/ CrConnectUnexpected
    \/ CrUnhandled
    \/ CrMissingCredentials
    \/ CrConnect
    \/ CrConnectFails
    \/ CrFindVersion
    \/ CrFetchVersionsFails
    \/ CrCreateTicket
    \/ CrCreateTicketFails

SpecCreateReleaseTicket == CrInit /\ [][CrNext]_vars

\* the two scripts that look a version up by its exact name
NamedLookupsInit == RjInit \/ CrInit

NamedLookupsNext == RjNext \/ CrNext

SpecNamedLookups == NamedLookupsInit /\ [][NamedLookupsNext]_vars

---------------------------------------------------------------------------
(* create-integration-ticket/create_integration_ticket.py *)

\* bound of the input space: the number of issue types of the project
MaxIssueTypes == 2

IssueTypeNames == {"Bug", "Story", "TASK"}

\* str.lower on the names of issue types
lower(name) == CASE name = "Bug" -> "bug" [] name = "Story" -> "story" [] name = "TASK" -> "task"

JiraUrl == "https://jira.example.com"

LinkedTicketKey == "REL-123"

\* the key Jira gives the new ticket, and its permalink
IntegrationTicketKey == "SQS-101"

permalink(key) == JiraUrl \o "/browse/" \o key

\* a main() that falls back on a fixed summary instead of giving up
ticket_summary_or_default(args) ==
    IF args.ticket_summary # ""
    THEN Some(args.ticket_summary)
    ELSE IF args.project_name = "" \/ args.release_version = ""
    THEN Some("Integration")
    ELSE Some("Integration for " \o args.project_name \o " " \o args.release_version)

\* main(): the summary given, or the one generated from the project name and
\* the version; None when neither can be had
ticket_summary(args) ==
    IF args.ticket_summary # ""
    THEN Some(args.ticket_summary)
    ELSE IF args.project_name = "" \/ args.release_version = ""
    THEN None
    ELSE Some("Integration for " \o args.project_name \o " " \o args.release_version)

\* create_integration_ticket: the first type named task or story, else the
\* first type, else none
chosen_issue_type(issue_types) ==
    LET preferred == { i \in DOMAIN issue_types : lower(issue_types[i]) \in {"task", "story"} }
    IN  IF preferred # {}
        THEN Some(issue_types[CHOOSE i \in preferred : \A j \in preferred : i <= j])
        ELSE IF issue_types # <<>> THEN Some(issue_types[1]) ELSE None

\* what the except branches of link_tickets write
LinkErrorOutput(e) ==
    IF "status_code" \in DOMAIN e
    THEN << <<"Error: Failed to link tickets. Status: ", ToString(e.status_code)>>,
            <<"Response text: ", e.text>>,
            <<"Warning: Ticket was created but linking failed.">> >>
    ELSE << <<"An unexpected error occurred while linking tickets: ", e.exception>>,
            <<"Warning: Ticket was created but linking failed.">> >>

\* a link_tickets that gives up when the link cannot be created
link_tickets_or_exit(e) == [errors |-> LinkErrorOutput(e), exit |-> Some(1)]

\* link_tickets when create_issue_link raises: the lines written, and no exit
link_tickets_failure(e) == [errors |-> LinkErrorOutput(e), exit |-> None]

CiArguments ==
    [ticket_summary : {"", "Integrate"}, project_name : {"", "SonarX"},
     release_version : {"", "1.0.0"}]

CiInit ==
    /\ PayIdle /\ LockIdle /\ CvIdle /\ RcIdle /\ NotesIdle /\ ItIdle /\ UtIdle /\ RjIdle /\ CrIdle /\ NsIdle /\ FnIdle /\ GnIdle /\ TcIdle /\ GaIdle /\ PbIdle
    /\ unexpected = <<>>
    /\ ci_args \in CiArguments
    /\ ci_creds \in BOOLEAN
    /\ ci_issue_types \in Strings(IssueTypeNames, MaxIssueTypes)
    /\ ci_pc = "summary"
    /\ ci_summary = None
    /\ ci_issue_type = None
    /\ ci_calls = <<>>
    /\ ci_stderr = <<>>
    /\ ci_stdout = <<>>
    /\ ci_exit = None

ciInputs == <<ci_args, ci_creds, ci_issue_types>>

CiExit(code) ==
    /\ ci_pc' = "done"
    /\ ci_exit' = Some(code)

\* the two lines main() prints at its end
CiPrint ==
    /\ ci_stdout' = << <<"ticket_key", IntegrationTicketKey>>,
                       <<"ticket_url", permalink(IntegrationTicketKey)>> >>
    /\ CiExit(0)

\* main(): the summary is validated before anything else, sys.exit(1) without one
CiCheckSummary ==
    /\ ci_pc = "summary"
    /\ ci_summary' = ticket_summary(ci_args)
    /\ IF ticket_summary(ci_args) = None
       THEN /\ ci_stderr' = Append(ci_stderr,
                              <<"Error: Either --ticket-summary must be provided, or both --project-name and --release-version must be provided.">>)
            /\ CiExit(1)
       ELSE /\ ci_pc' = "connect"
            /\ UNCHANGED <<ci_stderr, ci_exit>>
    /\ UNCHANGED <<ciInputs, ci_issue_type, ci_calls, ci_stdout, ciOthers>>

\* get_jira_instance: the credentials are missing, sys.exit(1) before any call
CiMissingCredentials ==
    /\ ci_pc = "connect"
    /\ ~ci_creds
    /\ ci_stderr' = Append(ci_stderr,
                      <<"Error: JIRA_USER and JIRA_TOKEN environment variables must be set.">>)
    /\ CiExit(1)
    /\ UNCHANGED <<ciInputs, ci_summary, ci_issue_type, ci_calls, ci_stdout, ciOthers>>

\* get_jira_instance: JIRA(..., get_server_info=True) succeeds
CiConnect ==
    /\ ci_pc = "connect"
    /\ ci_creds
    /\ ci_calls' = Append(ci_calls, [op |-> "server_info", ok |-> TRUE])
    /\ ci_pc' = "validate"
    /\ UNCHANGED <<ciInputs, ci_summary, ci_issue_type, ci_stderr, ci_stdout, ci_exit, ciOthers>>

\* get_jira_instance: JIRA(...) raises, sys.exit(1)
CiConnectFails ==
    /\ ci_pc = "connect"
    /\ ci_creds
    /\ ci_calls' = Append(ci_calls, [op |-> "server_info", ok |-> FALSE, error |-> ServerError])
    /\ ci_stderr' = ci_stderr \o
                      << <<"Error: JIRA authentication failed. Status: ",
                           ToString(ServerError.status_code)>>,
                         <<"Please check your JIRA URL, user, and token.">>,
                         <<"Response text: ", ServerError.text>> >>
    /\ CiExit(1)
    /\ UNCHANGED <<ciInputs, ci_summary, ci_issue_type, ci_stdout, ciOthers>>

\* validate_linked_ticket: jira_client.issue returns the linked ticket
CiValidateLinkedTicket ==
    /\ ci_pc = "validate"
    /\ ci_calls' = Append(ci_calls, [op |-> "issue", ok |-> TRUE, key |-> LinkedTicketKey])
    /\ ci_pc' = "project"
    /\ UNCHANGED <<ciInputs, ci_summary, ci_issue_type, ci_stderr, ci_stdout, ci_exit, ciOthers>>

\* validate_linked_ticket: jira_client.issue raises, sys.exit(1)
CiValidateLinkedTicketFails ==
    /\ ci_pc = "validate"
    /\ \E e \in {NotFoundError, ServerError, OtherException} :
         /\ ci_calls' = Append(ci_calls, [op |-> "issue", ok |-> FALSE, key |-> LinkedTicketKey,
                                          error |-> e])
         /\ ci_stderr' = ci_stderr \o
              (IF "exception" \in DOMAIN e
               THEN << <<"An unexpected error occurred while validating linked ticket: ",
                         e.exception>> >>
               ELSE IF e.status_code = 404
               THEN << <<"Error: Ticket '", LinkedTicketKey, "' not found.">> >>
               ELSE << <<"Error: Failed to access ticket '", LinkedTicketKey, "'. Status: ",
                         ToString(e.status_code)>>,
                       <<"Response text: ", e.text>> >>)
         /\ unexpected' = IF "exception" \in DOMAIN e
                          THEN Append(unexpected, Raised("ci", "issue", e))
                          ELSE unexpected
    /\ CiExit(1)
    /\ UNCHANGED <<ciInputs, ci_summary, ci_issue_type, ci_stdout, ciPeers>>

\* create_integration_ticket: project and createmeta return, the issue type is
\* chosen; sys.exit(1) when the project has no issue type
CiChooseIssueType ==
    /\ ci_pc = "project"
    /\ ci_calls' = ci_calls \o << [op |-> "project", ok |-> TRUE],
                                  [op |-> "createmeta", ok |-> TRUE] >>
    /\ ci_issue_type' = chosen_issue_type(ci_issue_types)
    /\ IF chosen_issue_type(ci_issue_types) = None
       THEN /\ ci_stderr' = Append(ci_stderr,
                              <<"Error: No available issue types found for project '",
                                ProjectKey, "'">>)
            /\ CiExit(1)
       ELSE /\ ci_pc' = "create"
            /\ UNCHANGED <<ci_stderr, ci_exit>>
    /\ UNCHANGED <<ciInputs, ci_summary, ci_stdout, ciOthers>>

\* create_integration_ticket: jira_client.project raises JIRAError, sys.exit(1)
CiProjectFails ==
    /\ ci_pc = "project"
    /\ \E e \in {ProjectNotFoundError, ServerError} :
         /\ ci_calls' = Append(ci_calls, [op |-> "project", ok |-> FALSE, error |-> e])
         /\ ci_stderr' = ci_stderr \o
                           << <<"Error: Failed to access project '", ProjectKey, "'. Status: ",
                                ToString(e.status_code)>>,
                              <<"Response text: ", e.text>> >>
    /\ CiExit(1)
    /\ UNCHANGED <<ciInputs, ci_summary, ci_issue_type, ci_stdout, ciOthers>>

CiCreateCall(ok) ==
    [op |-> "create_issue", ok |-> ok,
     fields |-> [project |-> ProjectKey, issuetype |-> The(ci_issue_type),
                 summary |-> The(ci_summary)]]

\* create_integration_ticket: create_issue returns the new ticket
CiCreateTicket ==
    /\ ci_pc = "create"
    /\ ci_calls' = Append(ci_calls, CiCreateCall(TRUE))
    /\ ci_pc' = "link"
    /\ UNCHANGED <<ciInputs, ci_summary, ci_issue_type, ci_stderr, ci_stdout, ci_exit, ciOthers>>

\* create_integration_ticket: create_issue raises JIRAError, sys.exit(1)
CiCreateTicketFails ==
    /\ ci_pc = "create"
    /\ ci_calls' = Append(ci_calls, CiCreateCall(FALSE))
    /\ ci_stderr' = ci_stderr \o
                      << <<"Error: Failed to create Jira ticket. Status: ",
                           ToString(ServerError.status_code)>>,
                         <<"Response text: ", ServerError.text>> >>
    /\ CiExit(1)
    /\ UNCHANGED <<ciInputs, ci_summary, ci_issue_type, ci_stdout, ciOthers>>

\* link_tickets creating the ticket a second time instead of linking it
CiSecondCreateCall(ok) ==
    [op |-> "create_issue", ok |-> ok,
     fields |-> [project |-> ProjectKey, issuetype |-> The(ci_issue_type),
                 summary |-> The(ci_summary)]]

CiLinkCall(ok) ==
    [op |-> "create_issue_link", ok |-> ok, type |-> "relates to",
     inwardIssue |-> IntegrationTicketKey, outwardIssue |-> LinkedTicketKey]

\* link_tickets: create_issue_link succeeds, and main() prints
CiLinkTickets ==
    /\ ci_pc = "link"
    /\ ci_calls' = Append(ci_calls, CiLinkCall(TRUE))
    /\ CiPrint
    /\ UNCHANGED <<ciInputs, ci_summary, ci_issue_type, ci_stderr, ciOthers>>

\* link_tickets: create_issue_link raises a JIRAError or another exception: a
\* warning, and main() prints
CiLinkTicketsFails ==
    /\ ci_pc = "link"
    /\ ci_calls' = Append(ci_calls, CiLinkCall(FALSE))
    /\ \E e \in {ServerError, OtherException} :
         LET failed == link_tickets_failure(e)
         IN  /\ ci_stderr' = ci_stderr \o failed.errors
             /\ IF failed.exit = None
                THEN CiPrint
                ELSE CiExit(The(failed.exit)) /\ UNCHANGED ci_stdout
             /\ unexpected' = IF "exception" \in DOMAIN e
                              THEN Append(unexpected, Raised("ci", "create_issue_link", e))
                              ELSE unexpected
    /\ UNCHANGED <<ciInputs, ci_summary, ci_issue_type, ciPeers>>

\* get_jira_instance: the constructor raises an exception that is not a
\* JIRAError: except Exception, a message and sys.exit(1)
CiConnectUnexpected ==
    /\ ci_pc = "connect"
    /\ ci_creds
    /\ unexpected' = Append(unexpected, Raised("ci", "JIRA", OtherException))
    /\ LET caught == connection_error_caught(OtherException)
       IN  /\ ci_stderr' = ci_stderr \o
                 (IF caught.exit = None THEN <<TracebackLine>> ELSE caught.errors)
           /\ ci_pc' = IF caught.exit = None THEN "raised" ELSE "done"
           /\ ci_exit' = IF caught.exit = None THEN Some(1) ELSE caught.exit
    /\ UNCHANGED <<ciPeers, ci_args, ci_creds, ci_issue_types, ci_summary, ci_issue_type,
                   ci_calls, ci_stdout>>

\* a remote call after the connection raises an exception that is not a
\* JIRAError: no except branch takes it, the exception leaves main()
CiUnhandled ==
    /\ \E step \in {<<"project", "project">>, <<"create", "create_issue">>} :
         /\ ci_pc = step[1]
         /\ unexpected' = Append(unexpected, Raised("ci", step[2], OtherException))
    /\ ci_stderr' = Append(ci_stderr, TracebackLine)
    /\ ci_pc' = "raised"
    /\ ci_exit' = Some(1)
    /\ UNCHANGED <<ciPeers, ci_args, ci_creds, ci_issue_types, ci_summary, ci_issue_type,
                   ci_calls, ci_stdout>>

CiNext ==
    \/ CiConnectUnexpected
    \/ CiUnhandled
    \/ CiCheckSummary
    \/ CiMissingCredentials
    \/ CiConnect
    \/ CiConnectFails
    \/ CiValidateLinkedTicket
    \/ CiValidateLinkedTicketFails
    \/ CiChooseIssueType
    \/ CiProjectFails
    \/ CiCreateTicket
    \/ CiCreateTicketFails
    \/ CiLinkTickets
    \/ CiLinkTicketsFails

SpecCreateIntegrationTicket == CiInit /\ [][CiNext]_vars

---------------------------------------------------------------------------
(* The environment of a run *)

\* os.environ.get(name): None when the variable is not set
EnvValues == {None, Some(""), Some("secret")}

\* a test for None only: an empty value passes
is_unset(value) == value = None

\* `not token`, `not jira_user`: None and the empty string
not_set(value) == IF value = None THEN TRUE ELSE The(value) = ""

\* `not jira_user or not jira_token`
credentials_missing(env) ==
    IF not_set(env.JIRA_USER) THEN TRUE ELSE not_set(env.JIRA_TOKEN)

JiraEnvs == [JIRA_USER : EnvValues, JIRA_TOKEN : EnvValues]

CredentialsMessage ==
    <<"Error: JIRA_USER and JIRA_TOKEN environment variables must be set.">>

---------------------------------------------------------------------------
(* lock-branch/notify_slack.py *)

ChannelNames == { <<"r">>, <<"#", "r">> }

\* if not channel.startswith('#'): return f'#{channel}'
normalize_channel(channel) ==
    IF channel # <<>> /\ channel[1] = "#" THEN channel ELSE <<"#">> \o channel

\* the answers of chat.postMessage
SlackResponses ==
    { [status_code |-> 200, ok |-> TRUE,  error |-> ""],
      [status_code |-> 200, ok |-> FALSE, error |-> "channel_not_found"],
      [status_code |-> 500, ok |-> FALSE, error |-> ""] }

NsInit ==
    /\ PayIdle /\ LockIdle /\ CvIdle /\ RcIdle /\ NotesIdle /\ ItIdle /\ UtIdle /\ RjIdle /\ CrIdle /\ CiIdle /\ FnIdle /\ GnIdle /\ TcIdle /\ GaIdle /\ PbIdle
    /\ unexpected = <<>>
    /\ ns_channel \in ChannelNames
    /\ ns_freeze \in BOOLEAN
    /\ ns_token \in EnvValues
    /\ ns_pc = "token"
    /\ ns_calls = <<>>
    /\ ns_stderr = <<>>
    /\ ns_exit = None

nsInputs == <<ns_channel, ns_freeze, ns_token>>

NsExit(code) ==
    /\ ns_pc' = "done"
    /\ ns_exit' = Some(code)

\* get_slack_token(): require_env_token('SLACK_TOKEN') finds no token, sys.exit(1)
NsMissingToken ==
    /\ ns_pc = "token"
    /\ not_set(ns_token)
    /\ ns_stderr' = Append(ns_stderr,
                      <<"Error: ", "SLACK_TOKEN", " environment variable must be set.">>)
    /\ NsExit(1)
    /\ UNCHANGED <<nsInputs, ns_calls, nsOthers>>

\* get_slack_token(): the token is returned
NsGetSlackToken ==
    /\ ns_pc = "token"
    /\ ~not_set(ns_token)
    /\ ns_pc' = "post"
    /\ UNCHANGED <<nsInputs, ns_calls, ns_stderr, ns_exit, nsOthers>>

\* send_slack_notification: requests.post and the reading of its answer
NsSendSlackNotification ==
    /\ ns_pc = "post"
    /\ \E response \in SlackResponses :
         /\ ns_calls' = Append(ns_calls,
                          [op |-> "chat.postMessage", ok |-> response.ok,
                           token |-> The(ns_token),
                           channel |-> normalize_channel(ns_channel),
                           action |-> IF ns_freeze THEN "frozen" ELSE "unfrozen",
                           status_code |-> response.status_code])
         /\ IF response.status_code # 200
            THEN /\ ns_stderr' = ns_stderr \o
                       << <<"Error: Failed to send Slack notification. Status: ",
                            ToString(response.status_code)>>,
                          <<"Response: ", response.error>> >>
                 /\ NsExit(1)
            ELSE IF ~response.ok
            THEN /\ ns_stderr' = Append(ns_stderr,
                                   <<"Error: Slack API error: ", response.error>>)
                 /\ NsExit(1)
            ELSE /\ NsExit(0)
                 /\ UNCHANGED ns_stderr
    /\ UNCHANGED <<nsInputs, nsOthers>>

NsNext ==
    \/ NsMissingToken
    \/ NsGetSlackToken
    \/ NsSendSlackNotification

SpecNotifySlack == NsInit /\ [][NsNext]_vars

---------------------------------------------------------------------------
(* publish-github-release/fetch_jira_release_notes.py, main() *)

\* JIRA_PROD_URL, its trailing slash apart
ProdUrl == <<"https://sonarsource.atlassian.net", "/">>

ReleaseName == "1.0.0"

ProjectName == "Project"

\* the category order of a run without --issue-types
DefaultCategoryOrder ==
    <<"New Feature", "False Positive", "False Negative", "Bug", "Improvement">>

\* the answers of search_issues: no issue, or issues of one release
ReleaseIssueLists == { issues \in IssueLists : Len(issues) <= MaxShortLen }

\* jql_query of get_issues_for_release
jql_query(project_key, release_name) ==
    <<"project = \"", project_key, "\" AND fixVersion = \"", release_name,
      "\" ORDER BY issuetype ASC, key ASC">>

ProjectDetailsError(project_key, e) ==
    <<"Error: Could not fetch project details for key '", project_key,
      "'. Status: ", ToString(e.status_code)>>

SearchErrorOutput(project_key, release_name, e) ==
    << <<"Error searching for issues. Status: ", ToString(e.status_code)>>,
       <<"JQL Query: ">> \o jql_query(project_key, release_name),
       <<"Response text: ", e.text>> >>

FnInit ==
    /\ PayIdle /\ LockIdle /\ CvIdle /\ RcIdle /\ NotesIdle /\ ItIdle /\ UtIdle /\ RjIdle /\ CrIdle /\ CiIdle /\ NsIdle /\ GnIdle /\ TcIdle /\ GaIdle /\ PbIdle
    /\ unexpected = <<>>
    /\ fn_env \in JiraEnvs
    /\ fn_issues \in ReleaseIssueLists
    /\ fn_pc = "connect"
    /\ fn_calls = <<>>
    /\ fn_stderr = <<>>
    /\ fn_stdout = <<>>
    /\ fn_exit = None

fnInputs == <<fn_env, fn_issues>>

FnExit(code) ==
    /\ fn_pc' = "done"
    /\ fn_exit' = Some(code)

\* get_jira_instance: the credentials are missing, sys.exit(1) before any call
FnMissingCredentials ==
    /\ fn_pc = "connect"
    /\ credentials_missing(fn_env)
    /\ fn_stderr' = Append(fn_stderr, CredentialsMessage)
    /\ FnExit(1)
    /\ UNCHANGED <<fnInputs, fn_calls, fn_stdout, fnOthers>>

\* get_jira_instance: JIRA(...) and server_info() succeed
FnConnect ==
    /\ fn_pc = "connect"
    /\ ~credentials_missing(fn_env)
    /\ fn_calls' = Append(fn_calls, [op |-> "server_info", ok |-> TRUE])
    /\ fn_pc' = "project"
    /\ UNCHANGED <<fnInputs, fn_stderr, fn_stdout, fn_exit, fnOthers>>

\* get_jira_instance: JIRA(...) or server_info() raises, sys.exit(1)
FnConnectFails ==
    /\ fn_pc = "connect"
    /\ ~credentials_missing(fn_env)
    /\ fn_calls' = Append(fn_calls, [op |-> "server_info", ok |-> FALSE, error |-> ServerError])
    /\ fn_stderr' = fn_stderr \o
                      << <<"Error: JIRA authentication failed. Status: ",
                           ToString(ServerError.status_code)>>,
                         <<"Response text: ", ServerError.text>> >>
    /\ FnExit(1)
    /\ UNCHANGED <<fnInputs, fn_stdout, fnOthers>>

\* get_project_name: jira_client.project returns
FnGetProjectName ==
    /\ fn_pc = "project"
    /\ fn_calls' = Append(fn_calls, [op |-> "project", ok |-> TRUE])
    /\ fn_pc' = "issues"
    /\ UNCHANGED <<fnInputs, fn_stderr, fn_stdout, fn_exit, fnOthers>>

\* get_project_name: jira_client.project raises JIRAError, sys.exit(1)
FnGetProjectNameFails ==
    /\ fn_pc = "project"
    /\ \E e \in {ProjectNotFoundError, ServerError} :
         /\ fn_calls' = Append(fn_calls, [op |-> "project", ok |-> FALSE, error |-> e])
         /\ fn_stderr' = Append(fn_stderr, ProjectDetailsError(ProjectKey, e))
    /\ FnExit(1)
    /\ UNCHANGED <<fnInputs, fn_stdout, fnOthers>>

\* get_issues_for_release returns; main() formats the notes and prints them
FnPrintNotes ==
    /\ fn_pc = "issues"
    /\ fn_calls' = Append(fn_calls, [op |-> "search_issues", ok |-> TRUE])
    /\ fn_stdout' = fetch_format_notes_as_markdown(fn_issues, ProdUrl, ProjectName,
                                                   ReleaseName, DefaultCategoryOrder)
    /\ FnExit(0)
    /\ UNCHANGED <<fnInputs, fn_stderr, fnOthers>>

\* get_issues_for_release: search_issues raises JIRAError, sys.exit(1)
FnGetIssuesFails ==
    /\ fn_pc = "issues"
    /\ \E e \in {NotFoundError, ServerError} :
         /\ fn_calls' = Append(fn_calls, [op |-> "search_issues", ok |-> FALSE, error |-> e])
         /\ fn_stderr' = fn_stderr \o SearchErrorOutput(ProjectKey, ReleaseName, e)
    /\ FnExit(1)
    /\ UNCHANGED <<fnInputs, fn_stdout, fnOthers>>

\* get_jira_instance: the constructor raises an exception that is not a
\* JIRAError: except Exception, a message and sys.exit(1)
FnConnectUnexpected ==
    /\ fn_pc = "connect"
    /\ ~credentials_missing(fn_env)
    /\ unexpected' = Append(unexpected, Raised("fn", "JIRA", OtherException))
    /\ LET caught == connection_error_caught(OtherException)
       IN  /\ fn_stderr' = fn_stderr \o
                 (IF caught.exit = None THEN <<TracebackLine>> ELSE caught.errors)
           /\ fn_pc' = IF caught.exit = None THEN "raised" ELSE "done"
           /\ fn_exit' = IF caught.exit = None THEN Some(1) ELSE caught.exit
    /\ UNCHANGED <<fnPeers, fn_env, fn_issues, fn_calls, fn_stdout>>

\* a remote call after the connection raises an exception that is not a
\* JIRAError: no except branch takes it, the exception leaves main()
FnUnhandled ==
    /\ \E step \in {<<"project", "project">>, <<"issues", "search_issues">>} :
         /\ fn_pc = step[1]
         /\ unexpected' = Append(unexpected, Raised("fn", step[2], OtherException))
    /\ fn_stderr' = Append(fn_stderr, TracebackLine)
    /\ fn_pc' = "raised"
    /\ fn_exit' = Some(1)
    /\ UNCHANGED <<fnPeers, fn_env, fn_issues, fn_calls, fn_stdout>>

FnNext ==
    \/ FnConnectUnexpected
    \/ FnUnhandled
    \/ FnMissingCredentials
    \/ FnConnect
    \/ FnConnectFails
    \/ FnGetProjectName
    \/ FnGetProjectNameFails
    \/ FnPrintNotes
    \/ FnGetIssuesFails

SpecFetchNotes == FnInit /\ [][FnNext]_vars

---------------------------------------------------------------------------
(* get-jira-release-notes/get_jira_release_notes.py, main() *)

\* --jira-url
GnJiraUrl == <<"https://jira.example.com", "/">>

generate_release_notes_url(jira_url, project_key, version_id) ==
    rstrip_slashes(jira_url)
    \o <<"/projects/", project_key, "/versions/", ToString(version_id),
         "/tab/release-report-all-issues">>

generate_release_issue_filter_url(jira_url, version_id) ==
    rstrip_slashes(jira_url) \o <<"/issues/?jql=fixVersion%3D", ToString(version_id)>>

\* get_version_id: the loop over the versions, returning at the first match
get_version_id(versions, version_name) == FirstNamed(versions, version_name)

VersionNotFound(version_name, project_key) ==
    <<"Error: Version '", version_name, "' not found in project '", project_key, "'.">>

\* the message of a failed project_versions call, without the project key
versions_error_without_key(project_key, e) ==
    <<"Error: Failed to fetch versions. Status: ", ToString(e.status_code)>>

\* the message of a failed project_versions call
VersionsErrorOutput(project_key, e) ==
    IF e.status_code = 404
    THEN <<"Error: Project with key '", project_key, "' not found.">>
    ELSE <<"Error: Failed to fetch versions for project '", project_key,
           "'. Status: ", ToString(e.status_code)>>

GnInit ==
    /\ PayIdle /\ LockIdle /\ CvIdle /\ RcIdle /\ NotesIdle /\ ItIdle /\ UtIdle /\ RjIdle /\ CrIdle /\ CiIdle /\ NsIdle /\ FnIdle /\ TcIdle /\ GaIdle /\ PbIdle
    /\ unexpected = <<>>
    /\ gn_env \in JiraEnvs
    /\ gn_version_name \in VersionNames
    /\ gn_versions \in VersionLists
    /\ gn_issues \in ReleaseIssueLists
    /\ gn_pc = "connect"
    /\ gn_version_id = None
    /\ gn_calls = <<>>
    /\ gn_stderr = <<>>
    /\ gn_stdout = <<>>
    /\ gn_exit = None

gnInputs == <<gn_env, gn_version_name, gn_versions, gn_issues>>

GnExit(code) ==
    /\ gn_pc' = "done"
    /\ gn_exit' = Some(code)

\* get_jira_instance: the credentials are missing, sys.exit(1) before any call
GnMissingCredentials ==
    /\ gn_pc = "connect"
    /\ credentials_missing(gn_env)
    /\ gn_stderr' = Append(gn_stderr, CredentialsMessage)
    /\ GnExit(1)
    /\ UNCHANGED <<gnInputs, gn_version_id, gn_calls, gn_stdout, gnOthers>>

\* get_jira_instance: JIRA(...) and server_info() succeed
GnConnect ==
    /\ gn_pc = "connect"
    /\ ~credentials_missing(gn_env)
    /\ gn_calls' = Append(gn_calls, [op |-> "server_info", ok |-> TRUE])
    /\ gn_pc' = "version"
    /\ UNCHANGED <<gnInputs, gn_version_id, gn_stderr, gn_stdout, gn_exit, gnOthers>>

\* get_jira_instance: JIRA(...) or server_info() raises, sys.exit(1)
GnConnectFails ==
    /\ gn_pc = "connect"
    /\ ~credentials_missing(gn_env)
    /\ gn_calls' = Append(gn_calls, [op |-> "server_info", ok |-> FALSE, error |-> ServerError])
    /\ gn_stderr' = gn_stderr \o
                      << <<"Error: JIRA authentication failed. Status: ",
                           ToString(ServerError.status_code)>>,
                         <<"Response text: ", ServerError.text>> >>
    /\ GnExit(1)
    /\ UNCHANGED <<gnInputs, gn_version_id, gn_stdout, gnOthers>>

\* get_version_id: project_versions returns; the id of the first version of
\* that name, sys.exit(1) when there is none
GnGetVersionId ==
    /\ gn_pc = "version"
    /\ gn_calls' = Append(gn_calls, [op |-> "project_versions", ok |-> TRUE])
    /\ LET found == get_version_id(gn_versions, gn_version_name)
       IN  IF found = None
           THEN /\ gn_stderr' = Append(gn_stderr, VersionNotFound(gn_version_name, ProjectKey))
                /\ GnExit(1)
                /\ UNCHANGED gn_version_id
           ELSE /\ gn_version_id' = Some(gn_versions[The(found)].id)
                /\ gn_pc' = "project"
                /\ UNCHANGED <<gn_stderr, gn_exit>>
    /\ UNCHANGED <<gnInputs, gn_stdout, gnOthers>>

\* get_version_id: project_versions raises JIRAError, sys.exit(1)
GnGetVersionIdFails ==
    /\ gn_pc = "version"
    /\ \E e \in {ProjectNotFoundError, ServerError} :
         /\ gn_calls' = Append(gn_calls,
                          [op |-> "project_versions", ok |-> FALSE, error |-> e])
         /\ gn_stderr' = Append(gn_stderr, VersionsErrorOutput(ProjectKey, e))
    /\ GnExit(1)
    /\ UNCHANGED <<gnInputs, gn_version_id, gn_stdout, gnOthers>>

\* get_project_name: jira_client.project returns
GnGetProjectName ==
    /\ gn_pc = "project"
    /\ gn_calls' = Append(gn_calls, [op |-> "project", ok |-> TRUE])
    /\ gn_pc' = "issues"
    /\ UNCHANGED <<gnInputs, gn_version_id, gn_stderr, gn_stdout, gn_exit, gnOthers>>

\* get_project_name: jira_client.project raises JIRAError, sys.exit(1)
GnGetProjectNameFails ==
    /\ gn_pc = "project"
    /\ \E e \in {ProjectNotFoundError, ServerError} :
         /\ gn_calls' = Append(gn_calls, [op |-> "project", ok |-> FALSE, error |-> e])
         /\ gn_stderr' = Append(gn_stderr, ProjectDetailsError(ProjectKey, e))
    /\ GnExit(1)
    /\ UNCHANGED <<gnInputs, gn_version_id, gn_stdout, gnOthers>>

\* the lines main() prints after the two formats are made
GnOutput(version_id, issues, version_name) ==
    << <<"jira-release-url",
         generate_release_notes_url(GnJiraUrl, ProjectKey, version_id)>>,
       <<"jira-release-issue-filter-url",
         generate_release_issue_filter_url(GnJiraUrl, version_id)>>,
       <<"jira-release-id", ToString(version_id)>>,
       <<"release-notes<<EOF">> >>
    \o format_notes_as_markdown(issues, GnJiraUrl, ProjectName, version_name,
                                DefaultCategoryOrder)
    \o << <<"EOF">>, <<"jira-release-notes<<EOF">> >>
    \o format_notes_as_jira_markup(issues, GnJiraUrl, ProjectName, version_name,
                                   DefaultCategoryOrder)
    \o << <<"EOF">> >>

\* get_issues_for_release returns; main() formats the notes and prints the outputs
GnPrintOutputs ==
    /\ gn_pc = "issues"
    /\ gn_calls' = Append(gn_calls, [op |-> "search_issues", ok |-> TRUE])
    /\ gn_stdout' = GnOutput(The(gn_version_id), gn_issues, gn_version_name)
    /\ GnExit(0)
    /\ UNCHANGED <<gnInputs, gn_version_id, gn_stderr, gnOthers>>

\* get_issues_for_release: search_issues raises JIRAError, sys.exit(1)
GnGetIssuesFails ==
    /\ gn_pc = "issues"
    /\ \E e \in {NotFoundError, ServerError} :
         /\ gn_calls' = Append(gn_calls, [op |-> "search_issues", ok |-> FALSE, error |-> e])
         /\ gn_stderr' = gn_stderr \o SearchErrorOutput(ProjectKey, gn_version_name, e)
    /\ GnExit(1)
    /\ UNCHANGED <<gnInputs, gn_version_id, gn_stdout, gnOthers>>

\* get_jira_instance: the constructor raises an exception that is not a
\* JIRAError: except Exception, a message and sys.exit(1)
GnConnectUnexpected ==
    /\ gn_pc = "connect"
    /\ ~credentials_missing(gn_env)
    /\ unexpected' = Append(unexpected, Raised("gn", "JIRA", OtherException))
    /\ LET caught == connection_error_caught(OtherException)
       IN  /\ gn_stderr' = gn_stderr \o
                 (IF caught.exit = None THEN <<TracebackLine>> ELSE caught.errors)
           /\ gn_pc' = IF caught.exit = None THEN "raised" ELSE "done"
           /\ gn_exit' = IF caught.exit = None THEN Some(1) ELSE caught.exit
    /\ UNCHANGED <<gnPeers, gn_env, gn_version_name, gn_versions, gn_issues, gn_version_id,
                   gn_calls, gn_stdout>>

\* a remote call after the connection raises an exception that is not a
\* JIRAError: no except branch takes it, the exception leaves main()
GnUnhandled ==
    /\ \E step \in {<<"version", "project_versions">>,
                   <<"project", "project">>,
                   <<"issues", "search_issues">>} :
         /\ gn_pc = step[1]
         /\ unexpected' = Append(unexpected, Raised("gn", step[2], OtherException))
    /\ gn_stderr' = Append(gn_stderr, TracebackLine)
    /\ gn_pc' = "raised"
    /\ gn_exit' = Some(1)
    /\ UNCHANGED <<gnPeers, gn_env, gn_version_name, gn_versions, gn_issues, gn_version_id,
                   gn_calls, gn_stdout>>

GnNext ==
    \/ GnConnectUnexpected
    \/ GnUnhandled
    \/ GnMissingCredentials
    \/ GnConnect
    \/ GnConnectFails
    \/ GnGetVersionId
    \/ GnGetVersionIdFails
    \/ GnGetProjectName
    \/ GnGetProjectNameFails
    \/ GnPrintOutputs
    \/ GnGetIssuesFails

SpecGetNotes == GnInit /\ [][GnNext]_vars

---------------------------------------------------------------------------
(* The two scripts that create the release ticket of the latest unreleased
   version: tools/create_release_ticket.py and its copy under .github/actions *)

JIRA_SANDBOX_URL == "https://sonarsource-sandbox-608.atlassian.net/"

\* sorted(unreleased_versions, key=lambda v: int(v.id), reverse=True)[0]: the
\* position of the unreleased version of the highest id, None without one
latest_unreleased_version(versions) ==
    LET unreleased == { i \in DOMAIN versions : ~versions[i].released }
    IN  IF unreleased = {} THEN None
        ELSE Some(CHOOSE i \in unreleased :
                     \A j \in unreleased : versions[i].id >= versions[j].id)

NoUnreleasedVersions(project_key) ==
    << <<"Error: No unreleased versions found for project '", project_key, "'.">>,
       <<"Please ensure there is at least one unreleased version in Jira.">> >>

\* the lines tools/jira_utils.py prints before it connects
ConnectingLines(env) ==
    << <<"Connecting to JIRA server at: ", JIRA_SANDBOX_URL>>,
       <<"Authenticating with user: ", The(env.JIRA_USER)>> >>

FetchingLine(project_key) == <<"Fetching versions for project '", project_key, "'...">>

\* the lines that announce the version found
LatestVersionLines(version) ==
    << <<"Latest UNRELEASED version found: ", version.name>>,
       <<"   Direct Link: ">> \o version_link(JIRA_SANDBOX_URL, ProjectKey, version) >>

\* the lines main() prints after the ticket is created
CreatedLines(ticket_key) ==
    << <<"Successfully created release ticket!">>,
       <<"   Ticket Key: ", ticket_key>>,
       <<"::set-output name=ticket-key::", ticket_key>> >>

---------------------------------------------------------------------------
(* tools/create_release_ticket.py, with get_jira_instance of tools/jira_utils.py *)

TcInit ==
    /\ PayIdle /\ LockIdle /\ CvIdle /\ RcIdle /\ NotesIdle /\ ItIdle /\ UtIdle /\ RjIdle /\ CrIdle /\ CiIdle /\ NsIdle /\ FnIdle /\ GnIdle /\ GaIdle /\ PbIdle
    /\ unexpected = <<>>
    /\ tc_env \in JiraEnvs
    /\ tc_versions \in VersionLists
    /\ tc_pc = "connect"
    /\ tc_target_version = None
    /\ tc_calls = <<>>
    /\ tc_stderr = <<>>
    /\ tc_stdout = <<>>
    /\ tc_exit = None

tcInputs == <<tc_env, tc_versions>>

TcExit(code) ==
    /\ tc_pc' = "done"
    /\ tc_exit' = Some(code)

\* get_jira_instance: the credentials are missing, sys.exit(1) before any call
TcMissingCredentials ==
    /\ tc_pc = "connect"
    /\ credentials_missing(tc_env)
    /\ tc_stderr' = Append(tc_stderr, CredentialsMessage)
    /\ TcExit(1)
    /\ UNCHANGED <<tcInputs, tc_target_version, tc_calls, tc_stdout, tcOthers>>

\* get_jira_instance: JIRA(..., get_server_info=True) succeeds
TcConnect ==
    /\ tc_pc = "connect"
    /\ ~credentials_missing(tc_env)
    /\ tc_calls' = Append(tc_calls, [op |-> "server_info", ok |-> TRUE])
    /\ tc_stdout' = tc_stdout \o ConnectingLines(tc_env)
                       \o << <<"JIRA authentication successful.">> >>
    /\ tc_pc' = "versions"
    /\ UNCHANGED <<tcInputs, tc_target_version, tc_stderr, tc_exit, tcOthers>>

\* get_jira_instance: JIRA(...) raises, sys.exit(1)
TcConnectFails ==
    /\ tc_pc = "connect"
    /\ ~credentials_missing(tc_env)
    /\ tc_calls' = Append(tc_calls, [op |-> "server_info", ok |-> FALSE, error |-> ServerError])
    /\ tc_stderr' = tc_stderr \o
                      << <<"Error: JIRA authentication failed. Status: ",
                           ToString(ServerError.status_code)>>,
                         <<"Please check your JIRA URL, user, and token.">>,
                         <<"Response text: ", ServerError.text>> >>
    /\ tc_stdout' = tc_stdout \o ConnectingLines(tc_env)
    /\ TcExit(1)
    /\ UNCHANGED <<tcInputs, tc_target_version, tcOthers>>

\* get_jira_release_notes_info: project_versions returns; the unreleased
\* version of the highest id is taken, sys.exit(1) when none is unreleased
TcGetReleaseNotesInfo ==
    /\ tc_pc = "versions"
    /\ tc_calls' = Append(tc_calls, [op |-> "project_versions", ok |-> TRUE])
    /\ LET latest == latest_unreleased_version(tc_versions)
       IN  IF latest = None
           THEN /\ tc_stderr' = tc_stderr \o NoUnreleasedVersions(ProjectKey)
                /\ TcExit(1)
                /\ tc_stdout' = Append(tc_stdout, FetchingLine(ProjectKey))
                /\ UNCHANGED tc_target_version
           ELSE /\ tc_target_version' = latest
                /\ tc_pc' = "create"
                /\ tc_stdout' = tc_stdout \o << FetchingLine(ProjectKey) >>
                     \o LatestVersionLines(tc_versions[The(latest)])
                /\ UNCHANGED <<tc_stderr, tc_exit>>
    /\ UNCHANGED <<tcInputs, tcOthers>>

\* get_jira_release_notes_info: project_versions raises JIRAError, sys.exit(1)
TcGetReleaseNotesInfoFails ==
    /\ tc_pc = "versions"
    /\ \E e \in {ProjectNotFoundError, ServerError} :
         /\ tc_calls' = Append(tc_calls,
                          [op |-> "project_versions", ok |-> FALSE, error |-> e])
         /\ tc_stderr' = Append(tc_stderr, VersionsErrorOutput(ProjectKey, e))
    /\ tc_stdout' = Append(tc_stdout, FetchingLine(ProjectKey))
    /\ TcExit(1)
    /\ UNCHANGED <<tcInputs, tc_target_version, tcOthers>>

TcCreateCall(ok) ==
    [op |-> "create_issue", ok |-> ok,
     link |-> version_link(JIRA_SANDBOX_URL, ProjectKey,
                           tc_versions[The(tc_target_version)])]

\* create_release_ticket and the end of main(): create_issue succeeds
TcCreateTicket ==
    /\ tc_pc = "create"
    /\ tc_calls' = Append(tc_calls, TcCreateCall(TRUE))
    /\ tc_stdout' = tc_stdout \o << <<"Preparing to create release ticket...">> >>
                       \o CreatedLines(NewTicketKey)
    /\ TcExit(0)
    /\ UNCHANGED <<tcInputs, tc_target_version, tc_stderr, tcOthers>>

\* create_release_ticket: create_issue raises JIRAError, sys.exit(1)
TcCreateTicketFails ==
    /\ tc_pc = "create"
    /\ tc_calls' = Append(tc_calls, TcCreateCall(FALSE))
    /\ tc_stderr' = tc_stderr \o
                      << <<"Error: Failed to create Jira ticket. Status: ",
                           ToString(ServerError.status_code)>>,
                         <<"Response text: ", ServerError.text>> >>
    /\ tc_stdout' = Append(tc_stdout, <<"Preparing to create release ticket...">>)
    /\ TcExit(1)
    /\ UNCHANGED <<tcInputs, tc_target_version, tcOthers>>

\* get_jira_instance: the constructor raises an exception that is not a
\* JIRAError: except Exception, a message and sys.exit(1)
TcConnectUnexpected ==
    /\ tc_pc = "connect"
    /\ ~credentials_missing(tc_env)
    /\ unexpected' = Append(unexpected, Raised("tc", "JIRA", OtherException))
    /\ LET caught == connection_error_caught(OtherException)
       IN  /\ tc_stderr' = tc_stderr \o
                 (IF caught.exit = None THEN <<TracebackLine>> ELSE caught.errors)
           /\ tc_pc' = IF caught.exit = None THEN "raised" ELSE "done"
           /\ tc_exit' = IF caught.exit = None THEN Some(1) ELSE caught.exit
    /\ tc_stdout' = tc_stdout \o ConnectingLines(tc_env)
    /\ UNCHANGED <<tcPeers, tc_env, tc_versions, tc_target_version, tc_calls>>

\* a remote call after the connection raises an exception that is not a
\* JIRAError: no except branch takes it, the exception leaves main()
TcUnhandled ==
    /\ \E step \in {<<"versions", "project_versions">>,
                   <<"create", "create_issue">>} :
         /\ tc_pc = step[1]
         /\ unexpected' = Append(unexpected, Raised("tc", step[2], OtherException))
    /\ tc_stderr' = Append(tc_stderr, TracebackLine)
    /\ tc_pc' = "raised"
    /\ tc_exit' = Some(1)
    /\ tc_stdout' = Append(tc_stdout, IF tc_pc = "versions" THEN FetchingLine(ProjectKey)
                                  ELSE <<"Preparing to create release ticket...">>)
    /\ UNCHANGED <<tcPeers, tc_env, tc_versions, tc_target_version, tc_calls>>

TcNext ==
    \/ TcConnectUnexpected
    \/ TcUnhandled
    \/ TcMissingCredentials
    \/ TcConnect
    \/ TcConnectFails
    \/ TcGetReleaseNotesInfo
    \/ TcGetReleaseNotesInfoFails
    \/ TcCreateTicket
    \/ TcCreateTicketFails

SpecToolsReleaseTicket == TcInit /\ [][TcNext]_vars

---------------------------------------------------------------------------
(* .github/actions/create-jira-release-ticket/create_release_ticket.py *)

GaInit ==
    /\ PayIdle /\ LockIdle /\ CvIdle /\ RcIdle /\ NotesIdle /\ ItIdle /\ UtIdle /\ RjIdle /\ CrIdle /\ CiIdle /\ NsIdle /\ FnIdle /\ GnIdle /\ TcIdle /\ PbIdle
    /\ unexpected = <<>>
    /\ ga_env \in JiraEnvs
    /\ ga_versions \in VersionLists
    /\ ga_pc = "connect"
    /\ ga_target_version = None
    /\ ga_calls = <<>>
    /\ ga_stderr = <<>>
    /\ ga_stdout = <<>>
    /\ ga_exit = None

gaInputs == <<ga_env, ga_versions>>

GaExit(code) ==
    /\ ga_pc' = "done"
    /\ ga_exit' = Some(code)

\* get_jira_instance: the credentials are missing, sys.exit(1) before any call
GaMissingCredentials ==
    /\ ga_pc = "connect"
    /\ credentials_missing(ga_env)
    /\ ga_stderr' = Append(ga_stderr, CredentialsMessage)
    /\ GaExit(1)
    /\ UNCHANGED <<gaInputs, ga_target_version, ga_calls, ga_stdout, gaOthers>>

\* get_jira_instance: JIRA(..., get_server_info=True) succeeds
GaConnect ==
    /\ ga_pc = "connect"
    /\ ~credentials_missing(ga_env)
    /\ ga_calls' = Append(ga_calls, [op |-> "server_info", ok |-> TRUE])
    /\ UNCHANGED ga_stdout
    /\ ga_pc' = "versions"
    /\ UNCHANGED <<gaInputs, ga_target_version, ga_stderr, ga_exit, gaOthers>>

\* get_jira_instance: JIRA(...) raises, sys.exit(1)
GaConnectFails ==
    /\ ga_pc = "connect"
    /\ ~credentials_missing(ga_env)
    /\ ga_calls' = Append(ga_calls, [op |-> "server_info", ok |-> FALSE, error |-> ServerError])
    /\ ga_stderr' = ga_stderr \o
                      << <<"Error: JIRA authentication failed. Status: ",
                           ToString(ServerError.status_code)>>,
                         <<"Please check your JIRA URL, user, and token.">>,
                         <<"Response text: ", ServerError.text>> >>
    /\ UNCHANGED ga_stdout
    /\ GaExit(1)
    /\ UNCHANGED <<gaInputs, ga_target_version, gaOthers>>

\* get_jira_release_notes_info: project_versions returns; the unreleased
\* version of the highest id is taken, sys.exit(1) when none is unreleased
GaGetReleaseNotesInfo ==
    /\ ga_pc = "versions"
    /\ ga_calls' = Append(ga_calls, [op |-> "project_versions", ok |-> TRUE])
    /\ LET latest == latest_unreleased_version(ga_versions)
       IN  IF latest = None
           THEN /\ ga_stderr' = ga_stderr \o NoUnreleasedVersions(ProjectKey)
                /\ GaExit(1)
                /\ UNCHANGED ga_stdout
                /\ UNCHANGED ga_target_version
           ELSE /\ ga_target_version' = latest
                /\ ga_pc' = "create"
                /\ UNCHANGED ga_stdout
                /\ UNCHANGED <<ga_stderr, ga_exit>>
    /\ UNCHANGED <<gaInputs, gaOthers>>

\* get_jira_release_notes_info: project_versions raises JIRAError, sys.exit(1)
GaGetReleaseNotesInfoFails ==
    /\ ga_pc = "versions"
    /\ \E e \in {ProjectNotFoundError, ServerError} :
         /\ ga_calls' = Append(ga_calls,
                          [op |-> "project_versions", ok |-> FALSE, error |-> e])
         /\ ga_stderr' = Append(ga_stderr, VersionsErrorOutput(ProjectKey, e))
    /\ UNCHANGED ga_stdout
    /\ GaExit(1)
    /\ UNCHANGED <<gaInputs, ga_target_version, gaOthers>>

GaCreateCall(ok) ==
    [op |-> "create_issue", ok |-> ok,
     link |-> version_link(JIRA_SANDBOX_URL, ProjectKey,
                           ga_versions[The(ga_target_version)])]

\* create_release_ticket and the end of main(): create_issue succeeds
GaCreateTicket ==
    /\ ga_pc = "create"
    /\ ga_calls' = Append(ga_calls, GaCreateCall(TRUE))
    /\ ga_stdout' = Append(ga_stdout, <<NewTicketKey>>)
    /\ GaExit(0)
    /\ UNCHANGED <<gaInputs, ga_target_version, ga_stderr, gaOthers>>

\* create_release_ticket: create_issue raises JIRAError, sys.exit(1)
GaCreateTicketFails ==
    /\ ga_pc = "create"
    /\ ga_calls' = Append(ga_calls, GaCreateCall(FALSE))
    /\ ga_stderr' = ga_stderr \o
                      << <<"Error: Failed to create Jira ticket. Status: ",
                           ToString(ServerError.status_code)>>,
                         <<"Response text: ", ServerError.text>> >>
    /\ UNCHANGED ga_stdout
    /\ GaExit(1)
    /\ UNCHANGED <<gaInputs, ga_target_version, gaOthers>>

\* get_jira_instance: the constructor raises an exception that is not a
\* JIRAError: except Exception, a message and sys.exit(1)
GaConnectUnexpected ==
    /\ ga_pc = "connect"
    /\ ~credentials_missing(ga_env)
    /\ unexpected' = Append(unexpected, Raised("ga", "JIRA", OtherException))
    /\ LET caught == connection_error_caught(OtherException)
       IN  /\ ga_stderr' = ga_stderr \o
                 (IF caught.exit = None THEN <<TracebackLine>> ELSE caught.errors)
           /\ ga_pc' = IF caught.exit = None THEN "raised" ELSE "done"
           /\ ga_exit' = IF caught.exit = None THEN Some(1) ELSE caught.exit
    /\ UNCHANGED <<gaPeers, ga_env, ga_versions, ga_target_version, ga_calls, ga_stdout>>

\* a remote call after the connection raises an exception that is not a
\* JIRAError: no except branch takes it, the exception leaves main()
GaUnhandled ==
    /\ \E step \in {<<"versions", "project_versions">>,
                   <<"create", "create_issue">>} :
         /\ ga_pc = step[1]
         /\ unexpected' = Append(unexpected, Raised("ga", step[2], OtherException))
    /\ ga_stderr' = Append(ga_stderr, TracebackLine)
    /\ ga_pc' = "raised"
    /\ ga_exit' = Some(1)
    /\ UNCHANGED <<gaPeers, ga_env, ga_versions, ga_target_version, ga_calls, ga_stdout>>

GaNext ==
    \/ GaConnectUnexpected
    \/ GaUnhandled
    \/ GaMissingCredentials
    \/ GaConnect
    \/ GaConnectFails
    \/ GaGetReleaseNotesInfo
    \/ GaGetReleaseNotesInfoFails
    \/ GaCreateTicket
    \/ GaCreateTicketFails

SpecActionReleaseTicket == GaInit /\ [][GaNext]_vars

---------------------------------------------------------------------------
(* One run of any of the scripts.  The runs whose input space is large are *)
(* taken on short names, few links and an unprotected branch.              *)

AllScriptsInit ==
    \/ remote = None /\ LockInit
    \/ NsInit
    \/ CvInit /\ Len(cv_version_name) <= MaxShortLen
    \/ RcInit /\ Len(rc_release_name) <= MaxShortLen
    \/ RjInit
    \/ CrInit
    \/ CiInit
    \/ ItInit /\ Len(it_links) <= MaxShortLen
    \/ UtInit
    \/ gn_issues = <<>> /\ GnInit
    \/ FnInit
    \/ TcInit
    \/ GaInit

AllScriptsNext ==
    \/ LockNext
    \/ NsNext
    \/ CvNext
    \/ RcNext
    \/ RjNext
    \/ CrNext
    \/ CiNext
    \/ ItNext
    \/ UtNext
    \/ GnNext
    \/ FnNext
    \/ TcNext
    \/ GaNext

SpecAllScripts == AllScriptsInit /\ [][AllScriptsNext]_vars

---------------------------------------------------------------------------
(* Claims about build_protection_payload *)

\* what a prior record says about a setting, read off the record itself
SettingOn(r, k) == k \in DOMAIN r /\ "enabled" \in DOMAIN r[k] /\ r[k]["enabled"]

SubSetting(r, k) == IF k \in DOMAIN r THEN r[k] ELSE None

FieldOr(d, k, default) == IF k \in DOMAIN d THEN d[k] ELSE default

SameNames(names, entries, field) ==
    /\ Len(names) = Len(entries)
    /\ \A i \in 1..Len(entries) : names[i] = entries[i][field]

StatusChecksKept(r, p) ==
    LET s == SubSetting(r, "required_status_checks")
    IN  IF s = None
        THEN p.required_status_checks = None
        ELSE /\ p.required_status_checks # None
             /\ The(p.required_status_checks).strict = FieldOr(The(s), "strict", FALSE)
             /\ The(p.required_status_checks).contexts = FieldOr(The(s), "contexts", <<>>)

PullRequestReviewsKept(r, p) ==
    LET s == SubSetting(r, "required_pull_request_reviews")
    IN  IF s = None
        THEN p.required_pull_request_reviews = None
        ELSE /\ p.required_pull_request_reviews # None
             /\ LET q == The(p.required_pull_request_reviews)
                IN  /\ q.dismiss_stale_reviews =
                          FieldOr(The(s), "dismiss_stale_reviews", FALSE)
                    /\ q.require_code_owner_reviews =
                          FieldOr(The(s), "require_code_owner_reviews", FALSE)
                    /\ q.required_approving_review_count =
                          FieldOr(The(s), "required_approving_review_count", 0)

RestrictionsKept(r, p) ==
    LET s == SubSetting(r, "restrictions")
    IN  IF s = None
        THEN p.restrictions = None
        ELSE /\ p.restrictions # None
             /\ LET q == The(p.restrictions)
                IN  /\ SameNames(q.users, FieldOr(The(s), "users", <<>>), "login")
                    /\ SameNames(q.teams, FieldOr(The(s), "teams", <<>>), "slug")
                    /\ SameNames(q.apps, FieldOr(The(s), "apps", <<>>), "slug")

\* C1: for an existing record the payload carries every sub-setting of the record
\* forward unchanged (enforce_admins, the status checks, the review rules, the
\* restrictions, the optional boolean settings), holds no other key, and its
\* lock_branch is the requested value.
C1_PayloadPreservesSettings ==
    (payload # None /\ current_protection # None) =>
        LET r == The(current_protection)
            p == The(payload)
        IN  /\ DOMAIN p = ProtectionKeys
            /\ p.lock_branch = lock
            /\ \A k \in {"enforce_admins"} \cup OptionalBooleanSettings :
                   p[k] = SettingOn(r, k)
            /\ StatusChecksKept(r, p)
            /\ PullRequestReviewsKept(r, p)
            /\ RestrictionsKept(r, p)

\* a payload was built from a record with admins enforced and two restricted
\* users, and the requested lock differs from the record's
C1_Witness ==
    /\ payload # None
    /\ current_protection # None
    /\ LET r == The(current_protection)
       IN  /\ SettingOn(r, "enforce_admins")
           /\ "restrictions" \in DOMAIN r
           /\ r["restrictions"] # None
           /\ "users" \in DOMAIN The(r["restrictions"])
           /\ Len(The(r["restrictions"])["users"]) = 2
    /\ lock
    /\ The(payload).enforce_admins

\* C4: without a prior record the payload has the requested lock_branch, no status
\* checks, no review rules, no restrictions, and enforce_admins false.
C4_NoRecordDefaults ==
    (payload # None /\ current_protection = None) =>
        LET p == The(payload)
        IN  /\ p.lock_branch = lock
            /\ p.required_status_checks = None
            /\ p.required_pull_request_reviews = None
            /\ p.restrictions = None
            /\ p.enforce_admins = FALSE

---------------------------------------------------------------------------
(* Claims about the runs of lock-branch *)

\* the update requests a run has sent
PutsOf(r) == { i \in DOMAIN wire : wire[i].run = r /\ wire[i].method = "PUT" }

Emitted(r, key) ==
    { lb_stdout[r][i][2] : i \in { j \in DOMAIN lb_stdout[r] : lb_stdout[r][j][1] = key } }

Answered(i, r, method) ==
    wire[i].run = r /\ wire[i].method = method /\ wire[i].status \in {200, 201, 404}

\* run r wrote a payload built from a record it read before another run's write
StaleWrite(r) ==
    \E i, j, k \in DOMAIN wire :
        /\ i < j /\ j < k
        /\ Answered(i, r, "GET")
        /\ \E q \in Runs \ {r} : Answered(j, q, "PUT")
        /\ Answered(k, r, "PUT")

AllExitedZero == \A r \in Runs : lb_exit[r] = Some(0)

\* C2: when the requested value equals the lock state read from the remote record
\* the run sends no update, exits 0 and emits previous_state equal to
\* current_state; when they differ the run sends exactly one update.
C2_Idempotence ==
    \A r \in Runs :
        previous_locked[r] # None =>
            IF The(previous_locked[r]) = freeze[r]
            THEN /\ PutsOf(r) = {}
                 /\ lb_pc[r] = "done" =>
                        /\ lb_exit[r] = Some(0)
                        /\ Emitted(r, "previous_state") = Emitted(r, "current_state")
                        /\ Cardinality(Emitted(r, "previous_state")) = 1
            ELSE /\ Cardinality(PutsOf(r)) <= 1
                 /\ lb_pc[r] = "done" => Cardinality(PutsOf(r)) = 1

\* one run found the branch locked as requested and ended without an update
\* while the other one had to update
C2_Witness ==
    \E r, q \in Runs :
        /\ r # q
        /\ lb_pc[r] = "done" /\ lb_pc[q] = "done"
        /\ previous_locked[r] = Some(TRUE) /\ freeze[r]
        /\ lb_exit[r] = Some(0) /\ PutsOf(r) = {}
        /\ previous_locked[q] # None /\ The(previous_locked[q]) # freeze[q]
        /\ Cardinality(PutsOf(q)) = 1

\* C3 as stated: a run that wrote a payload built from a stale read, with both
\* runs exiting 0, leaves the branch with a lock flag that differs from the
\* current_state one of the runs reported.
C3_StaleWriteDiverges ==
    (AllExitedZero /\ \E r \in Runs : StaleWrite(r)) =>
        \E r \in Runs : Emitted(r, "current_state") # {BoolStr(is_branch_locked(remote))}

\* C3 (amended): read and write are not atomic, a run can write a payload built
\* from a record read before the other run's write; whenever that happens and
\* both runs exit 0, both requested the same value and the final lock flag is
\* the current_state both reported.
C3_StaleWriteSameValue ==
    (AllExitedZero /\ \E r \in Runs : StaleWrite(r)) =>
        /\ freeze[1] = freeze[2]
        /\ \A r \in Runs :
               Emitted(r, "current_state") = {BoolStr(is_branch_locked(remote))}

\* both runs exited 0 and one of them overwrote the other's write from a stale read
C3_Witness == AllExitedZero /\ \E r \in Runs : StaleWrite(r)

---------------------------------------------------------------------------
(* Claims about create-jira-version *)

\* a name of the form <non-empty prefix>.0
EndsWithDotZero(name) ==
    Len(name) >= 3 /\ name[Len(name) - 1] = "." /\ name[Len(name)] = "0"

WithoutDotZero(name) ==
    IF EndsWithDotZero(name) THEN SubSeq(name, 1, Len(name) - 2) ELSE name

CreateCalls == { i \in DOMAIN cv_calls : cv_calls[i].op = "create_version" }

\* C5: the name creation is requested under is the version name without its
\* final ".0" when the name has the form <non-empty prefix>.0, and the version
\* name unchanged otherwise.
C5_NormalizedName ==
    \A i \in CreateCalls : cv_calls[i].name = WithoutDotZero(cv_version_name)

\* the same on names without a newline character, where it holds
NormalizedSingleLineName ==
    NoNewline(cv_version_name, 1, Len(cv_version_name)) =>
        \A i \in CreateCalls : cv_calls[i].name = WithoutDotZero(cv_version_name)

---------------------------------------------------------------------------
(* Claims about release_and_create_jira_version *)

\* the position of the last dot of a name, 0 when it has none
LastDot(name) ==
    LET dots == { i \in DOMAIN name : name[i] = "." }
    IN  IF dots = {} THEN 0 ELSE CHOOSE i \in dots : \A j \in dots : j <= i

\* the name up to and including its last dot
UpToLastDot(name) == SubSeq(name, 1, LastDot(name))

LastComponent(name) == SubSeq(name, LastDot(name) + 1, Len(name))

RECURSIVE Pow10(_)
Pow10(n) == IF n = 0 THEN 1 ELSE 10 * Pow10(n - 1)

\* the number a string of digits denotes, by place value
RECURSIVE PlaceValue(_)
PlaceValue(s) ==
    IF s = <<>> THEN 0
    ELSE DigitValue(s[1]) * Pow10(Len(s) - 1) + PlaceValue(Tail(s))

\* a decimal number: digits, with or without a minus sign
IsDecimal(s) ==
    /\ s # <<>>
    /\ LET body == IF s[1] = "-" THEN Tail(s) ELSE s
       IN  body # <<>> /\ \A i \in DOMAIN body : body[i] \in Digits

DecimalValue(s) == IF s[1] = "-" THEN 0 - PlaceValue(Tail(s)) ELSE PlaceValue(s)

\* the way str() writes a number: no leading zero, no "-0"
IsCanonical(s) ==
    /\ IsDecimal(s)
    /\ LET body == IF s[1] = "-" THEN Tail(s) ELSE s
       IN  IF body[1] = "0" THEN s = <<"0">> ELSE TRUE

\* next is name with its last component c replaced by c + 1
IsIncrementOf(next, name) ==
    /\ Len(next) > LastDot(name)
    /\ SubSeq(next, 1, LastDot(name)) = UpToLastDot(name)
    /\ LET c == SubSeq(next, LastDot(name) + 1, Len(next))
       IN  /\ IsCanonical(c)
           /\ DecimalValue(c) = DecimalValue(LastComponent(name)) + 1

\* the run got as far as choosing the next name, and chose or gave up
RcPastNameStep ==
    /\ rc_version_to_release # None
    /\ rc_versions[The(rc_version_to_release)].released
    /\ rc_pc \in {"create", "done"}

RcCreateCalls == { i \in DOMAIN rc_calls : rc_calls[i].op = "create_version" }

\* C6: without a given next name, a release name whose last component is a
\* decimal number c yields the same name with the last component replaced by
\* c + 1, the earlier components unchanged; when the last component is not
\* numeric the run exits 1 and no next version is created.
C6_IncrementLastComponent ==
    rc_new_version_name = <<>> =>
        IF IsDecimal(LastComponent(rc_release_name))
        THEN /\ RcPastNameStep =>
                    rc_new_name # None /\ IsIncrementOf(The(rc_new_name), rc_release_name)
             /\ \A i \in RcCreateCalls : IsIncrementOf(rc_calls[i].name, rc_release_name)
        ELSE /\ RcCreateCalls = {}
             /\ rc_new_name = None
             /\ rc_pc = "done" => rc_exit = Some(1)

\* a run without a given next name released 9.99 and created 9.100
C6_Witness ==
    /\ rc_new_version_name = <<>>
    /\ rc_release_name = <<"9", ".", "9", "9">>
    /\ rc_exit = Some(0)
    /\ \E i \in RcCreateCalls : rc_calls[i].name = <<"9", ".", "1", "0", "0">>
    /\ rc_stdout = << <<"new_version_name", <<"9", ".", "1", "0", "0">> >> >>

---------------------------------------------------------------------------
(* Claims about the release notes formatters *)

IsMarkdownHeader(line) == Len(line) = 2 /\ line[1] = "### "

IsJiraHeader(line) == Len(line) = 2 /\ line[1] = "h3. "

IsIssueLine(line) == line # <<>> /\ line[1] = "["

RECURSIVE Ascending(_)
Ascending(S) ==
    IF S = {} THEN <<>>
    ELSE LET least == CHOOSE x \in S : \A y \in S : x <= y
         IN  <<least>> \o Ascending(S \ {least})

\* the positions of the section headers of a Markdown text, in text order
HeaderPositions(text) == Ascending({ i \in DOMAIN text : IsMarkdownHeader(text[i]) })

\* the lines between the header at position h and the next empty line
SectionBody(text, h) ==
    LET stops == { j \in (h + 1)..Len(text) : text[j] = <<>> } \cup {Len(text) + 1}
        stop == CHOOSE j \in stops : \A k \in stops : j <= k
    IN  SubSeq(text, h + 1, stop - 1)

HasIssueOfType(issue_type) == \E i \in DOMAIN nt_issues : nt_issues[i].issuetype = issue_type

\* where the issue with that key stands in the input list
PositionOfKey(key) == CHOOSE i \in DOMAIN nt_issues : nt_issues[i].key = key

SectionsFollowOrder(text) ==
    LET at == HeaderPositions(text)
    IN  /\ [ k \in DOMAIN at |-> text[at[k]][2] ] = SelectSeq(nt_category_order, HasIssueOfType)
        /\ \A k \in DOMAIN at :
             LET body == SectionBody(text, at[k])
             IN  /\ \A i \in DOMAIN body :
                       /\ IsIssueLine(body[i])
                       /\ \E j \in DOMAIN nt_issues :
                            /\ nt_issues[j].key = body[i][2]
                            /\ nt_issues[j].issuetype = text[at[k]][2]
                 /\ \A i, j \in DOMAIN body :
                       i < j => PositionOfKey(body[i][2]) < PositionOfKey(body[j][2])
        /\ \A i \in DOMAIN text :
             IsIssueLine(text[i]) =>
                 i > 1 /\ (IsMarkdownHeader(text[i - 1]) \/ IsIssueLine(text[i - 1]))

\* C7: for a non-empty issue list and any category order, the Markdown notes
\* have their section headers in the order of the category list, without the
\* categories that have no issue; each section lists only issues of its type,
\* and the issues of a section stand in their order in the input list.
C7_SectionsFollowCategoryOrder ==
    nt_issues # <<>> =>
        \A notes \in markdown_notes \cup fetch_markdown_notes : SectionsFollowOrder(notes)

\* issues Bug, New Feature, Bug under the order New Feature, Improvement, Bug:
\* a New Feature section, then a Bug section with both bugs in input order
C7_Witness ==
    /\ nt_category_order = <<"New Feature", "Improvement", "Bug">>
    /\ nt_jira_url = <<"h", "/", "/">>
    /\ Len(nt_issues) = 3
    /\ fetch_markdown_notes # None
    /\ markdown_notes = Some(
         << <<"# Release notes - ", "Project", " - ", "1.0">>,
            <<>>,
            <<"### ", "New Feature">>,
            <<"[", "T-2", "](", "h", "/browse/", "T-2", ") ", "about T-2">>,
            <<>>,
            <<"### ", "Bug">>,
            <<"[", "T-3", "](", "h", "/browse/", "T-3", ") ", "about T-3">>,
            <<"[", "T-1", "](", "h", "/browse/", "T-1", ") ", "about T-1">>,
            <<>> >>)

\* the text is the title, then nothing but the one line saying that no issue
\* was found
PlaceholderUnderTitle(text, title_mark) ==
    /\ text # <<>>
    /\ text[1] = <<title_mark, nt_project_name, " - ", nt_version>>
    /\ \E i \in 2..Len(text) :
         /\ text[i] = <<"No issues found for this release.">>
         /\ \A j \in 2..Len(text) : j # i => text[j] = <<>>
    /\ \A i \in DOMAIN text : ~IsMarkdownHeader(text[i]) /\ ~IsJiraHeader(text[i])

\* C8: for an empty issue list both formatters return the report title
\* followed by the single line "No issues found for this release." and no
\* section header, whatever the category order is.
C8_EmptyListPlaceholder ==
    nt_issues = <<>> =>
        /\ \A notes \in markdown_notes \cup fetch_markdown_notes :
               PlaceholderUnderTitle(notes, "# Release notes - ")
        /\ \A notes \in jira_markup_notes :
               PlaceholderUnderTitle(notes, "h1. Release notes - ")

\* both formatters ran on an empty list under a three-name category order
C8_Witness ==
    /\ nt_issues = <<>>
    /\ nt_category_order = <<"Bug", "New Feature", "Bug">>
    /\ markdown_notes # None
    /\ fetch_markdown_notes # None
    /\ jira_markup_notes = Some(
         << <<"h1. Release notes - ", "Project", " - ", "1.0">>,
            <<>>,
            <<"No issues found for this release.">> >>)

---------------------------------------------------------------------------
(* Claims about update-integration-tickets *)

\* the key of the ticket at the other end of a link
OtherEnd(link) == link[CHOOSE side \in DOMAIN link : TRUE].key

\* the key starts with the project code followed by "-"
BelongsTo(key, project) ==
    /\ Len(key) > Len(project)
    /\ \A i \in 1..Len(project) : key[i] = project[i]
    /\ key[Len(project) + 1] = "-"

\* the links of the release ticket to tickets of the project
LinksInto(project) == { i \in DOMAIN it_links : BelongsTo(OtherEnd(it_links[i]), project) }

\* the key is written somewhere in the text
WrittenIn(key, text) ==
    \E from \in 1..(Len(text) - Len(key) + 1) : SubSeq(text, from, from + Len(key) - 1) = key

\* the run fetched the release ticket and then stopped on the project: with
\* no link into the project, or with an error that names the project and
\* lists the key of every link into it
StoppedOn(project) ==
    /\ it_exit = Some(1)
    /\ it_stdout = <<>>
    /\ \A i \in DOMAIN it_calls : it_calls[i].key = <<"R", "E", "L", "-", "1">>
    /\ Len(it_stderr) = 1
    /\ it_stderr[1].project = project
    /\ IF LinksInto(project) = {}
       THEN it_stderr[1].what = "No linked ticket found"
       ELSE /\ it_stderr[1].what = "Found multiple linked tickets"
            /\ \A i \in LinksInto(project) : WrittenIn(OtherEnd(it_links[i]), it_stderr[1].keys)

\* what find_linked_ticket returned for the project is the key of the only
\* link into it
FoundTheOnly(found, project) ==
    \A key \in found :
        /\ Cardinality(LinksInto(project)) = 1
        /\ \A i \in LinksInto(project) : key = OtherEnd(it_links[i])

\* C9: find_linked_ticket succeeds only when exactly one linked ticket of the
\* release ticket has a key that starts with the project code followed by
\* "-", and then returns that key; with no such ticket, or with two or more,
\* the run exits 1, and with two or more the error lists all the keys found.
C9_ExactlyOneLinkedTicket ==
    /\ FoundTheOnly(sqs_ticket_key, <<"S", "O", "N", "A", "R">>)
    /\ FoundTheOnly(sc_ticket_key, <<"S", "C">>)
    /\ (it_release_issue # None /\ it_pc \notin {"find_sqs"}
            /\ Cardinality(LinksInto(<<"S", "O", "N", "A", "R">>)) # 1)
        => StoppedOn(<<"S", "O", "N", "A", "R">>)
    /\ (sqs_ticket_key # None /\ it_pc \notin {"find_sc"}
            /\ Cardinality(LinksInto(<<"S", "C">>)) # 1)
        => StoppedOn(<<"S", "C">>)

\* SONAR-1 was found, then the run stopped on SC-1 and SC-2, listing both
C9_Witness ==
    /\ sqs_ticket_key = Some(<<"S", "O", "N", "A", "R", "-", "1">>)
    /\ sc_ticket_key = None
    /\ it_exit = Some(1)
    /\ Len(it_stderr) = 1
    /\ it_stderr[1].what = "Found multiple linked tickets"
    /\ it_stderr[1].keys = <<"S", "C", "-", "1", ",", " ", "S", "C", "-", "2">>

---------------------------------------------------------------------------
(* Claims about update_ticket_status *)

UtOps == [ i \in DOMAIN ut_calls |-> ut_calls[i].op ]

\* the calls of a run that goes through, with and without an assignee
UtFullOrder ==
    IF ut_assignee \in {None, Some("")}
    THEN <<"issue", "transition_issue">>
    ELSE <<"issue", "assign_issue", "transition_issue">>

\* C10: update_ticket_status fetches the ticket, then assigns it (only when
\* an assignee is given), then makes the transition; it attempts no
\* transition after a failed fetch or a failed assignment, and no assignment
\* when no assignee is given.
C10_FetchAssignTransition ==
    /\ Len(UtOps) <= Len(UtFullOrder)
    /\ UtOps = SubSeq(UtFullOrder, 1, Len(UtOps))
    /\ \A i \in DOMAIN ut_calls : ~ut_calls[i].ok => i = Len(ut_calls)
    /\ ut_exit = Some(0) => UtOps = UtFullOrder

\* a run with an assignee went through its three calls
C10_Witness ==
    /\ ut_assignee = Some("jane@example.com")
    /\ ut_exit = Some(0)
    /\ ut_calls = << [op |-> "issue", ok |-> TRUE],
                     [op |-> "assign_issue", ok |-> TRUE],
                     [op |-> "transition_issue", ok |-> TRUE] >>
    /\ ut_ticket = Some([status |-> "Technical Release Done",
                          assignee |-> Some("jane@example.com")])

\* the run's last call was a transition that the tracker rejected
TransitionRejected ==
    /\ ut_calls # <<>>
    /\ ut_calls[Len(ut_calls)].op = "transition_issue"
    /\ ~ut_calls[Len(ut_calls)].ok

\* C11: when the tracker rejects the requested transition, the run does not
\* exit 0: it exits 1, and the error text of the tracker is written to
\* standard error.
C11_RejectedTransitionFails ==
    TransitionRejected =>
        /\ ut_exit = Some(1)
        /\ ut_stdout = <<>>
        /\ \E i \in DOMAIN ut_stderr :
             \E j \in DOMAIN ut_stderr[i] :
                 ut_stderr[i][j] = ut_calls[Len(ut_calls)].error.text

\* a run assigned the ticket, then had its transition rejected
C11_Witness ==
    /\ TransitionRejected
    /\ Len(ut_calls) = 3
    /\ ut_exit = Some(1)
    /\ ut_stderr[2] = <<"Response text: ", "Transition is not valid for the current status">>

---------------------------------------------------------------------------
(* Claims about the release step of the two release scripts *)

\* the updates among the calls of a run
UpdatesOf(calls) == SelectSeq(calls, LAMBDA c : c.op = "update")

\* C12: a step of release_jira_version or release_and_create_jira_version
\* (one that ends in an exception that is not a JIRAError aside)
\* that leaves the release step of a version already released sends nothing
\* and does not fail (release_jira_version exits 0, release_and_create goes on
\* to choose the next name); on an unreleased version it sends one update of
\* that version, the only update of the run; and no other step sends an update.
C12_ReleasedVersionSkipped ==
    [][ /\ (rj_pc = "release" /\ rj_pc' # "release" /\ unexpected' = unexpected) =>
             LET version == rj_versions[The(rj_version_to_release)]
             IN  IF version.released
                 THEN /\ rj_calls' = rj_calls
                      /\ rj_versions' = rj_versions
                      /\ rj_exit' = Some(0)
                 ELSE /\ Len(rj_calls') = Len(rj_calls) + 1
                      /\ rj_calls'[Len(rj_calls')].op = "update"
                      /\ rj_calls'[Len(rj_calls')].id = version.id
                      /\ rj_calls'[Len(rj_calls')].released
                      /\ Len(UpdatesOf(rj_calls')) = 1
        /\ (rc_pc = "release" /\ rc_pc' # "release" /\ unexpected' = unexpected) =>
             LET version == rc_versions[The(rc_version_to_release)]
             IN  IF version.released
                 THEN /\ rc_calls' = rc_calls
                      /\ rc_versions' = rc_versions
                      /\ rc_pc' = "name"
                      /\ rc_exit' = None
                 ELSE /\ Len(rc_calls') = Len(rc_calls) + 1
                      /\ rc_calls'[Len(rc_calls')].op = "update"
                      /\ rc_calls'[Len(rc_calls')].id = version.id
                      /\ Len(UpdatesOf(rc_calls')) = 1
        /\ rj_pc # "release" => UpdatesOf(rj_calls') = UpdatesOf(rj_calls)
        /\ rc_pc # "release" => UpdatesOf(rc_calls') = UpdatesOf(rc_calls)
      ]_vars

\* release_jira_version found the version released, among two of that name, and
\* ended with status 0 without an update
C12_Witness ==
    /\ rj_pc = "done"
    /\ rj_exit = Some(0)
    /\ rj_version_to_release = Some(1)
    /\ Len(rj_versions) = 2
    /\ rj_versions[1].released
    /\ ~rj_versions[2].released
    /\ UpdatesOf(rj_calls) = <<>>

---------------------------------------------------------------------------
(* Claims about the creation step of release_and_create_jira_version *)

\* the run ended on a create_version that the tracker refused
RcCreateRefused ==
    /\ rc_pc = "done"
    /\ rc_calls # <<>>
    /\ rc_calls[Len(rc_calls)].op = "create_version"
    /\ "error" \in DOMAIN rc_calls[Len(rc_calls)]

\* C13: when create_version fails because a version of that name already
\* exists, the run exits 0 and prints new_version_name=<that name>; when it
\* fails for another reason the run exits 1 and prints no new_version_name line.
C13_AlreadyExistsIsNotFatal ==
    RcCreateRefused =>
        LET refused == rc_calls[Len(rc_calls)]
        IN  IF refused.error = AlreadyExistsText
            THEN /\ rc_exit = Some(0)
                 /\ rc_stdout = << <<"new_version_name", refused.name>> >>
            ELSE /\ rc_exit = Some(1)
                 /\ \A i \in DOMAIN rc_stdout : rc_stdout[i][1] # "new_version_name"

\* the incremented name 9.10 already exists: exit 0 and the name printed
C13_Witness ==
    /\ RcCreateRefused
    /\ rc_calls[Len(rc_calls)].error = AlreadyExistsText
    /\ rc_new_version_name = <<>>
    /\ rc_release_name = <<"9", ".", "9">>
    /\ rc_stdout = << <<"new_version_name", <<"9", ".", "1", "0">> >> >>
    /\ rc_exit = Some(0)

---------------------------------------------------------------------------
(* Claims about the version lookups of create_release_ticket *)

\* the positions of the unreleased versions of the project
CrUnreleased == { i \in DOMAIN cr_versions : ~cr_versions[i].released }

\* the run has fetched the versions and looked one up
CrLookedUp ==
    /\ cr_calls # <<>>
    /\ \E i \in DOMAIN cr_calls : cr_calls[i].op = "project_versions" /\ cr_calls[i].ok

CrTicketCalls == { i \in DOMAIN cr_calls : cr_calls[i].op = "create_issue" }

\* the lines "  - <name>" of the listing on standard error, in order
CrListed == SelectSeq(cr_stderr, LAMBDA line : line[1] = "  - ")

\* C14: without a release name, the lookup returns a version only if exactly
\* one version of the project is unreleased, and returns that one; with none
\* the run exits 1; with several it exits 1 after listing each of them; and in
\* both failing cases create_issue is never called.
C14_SingleUnreleasedVersion ==
    (cr_release_name = "" /\ CrLookedUp) =>
        IF Cardinality(CrUnreleased) = 1
        THEN cr_target_version = { cr_versions[i] : i \in CrUnreleased }
        ELSE /\ cr_target_version = None
             /\ cr_exit = Some(1)
             /\ CrTicketCalls = {}
             /\ cr_stdout = <<>>
             /\ Cardinality(CrUnreleased) > 1 =>
                  /\ Len(CrListed) = Cardinality(CrUnreleased)
                  /\ \A i \in CrUnreleased :
                       \E j \in DOMAIN CrListed : CrListed[j][2] = cr_versions[i].name

\* two unreleased versions of different names: both listed, exit 1, no ticket
C14_Witness ==
    /\ cr_release_name = ""
    /\ CrLookedUp
    /\ Len(cr_versions) = 2
    /\ CrUnreleased = {1, 2}
    /\ cr_versions[1].name # cr_versions[2].name
    /\ CrListed = << <<"  - ", cr_versions[1].name>>, <<"  - ", cr_versions[2].name>> >>
    /\ cr_exit = Some(1)
    /\ CrTicketCalls = {}

---------------------------------------------------------------------------
(* Claims about lookups by exact name *)

\* position i holds the first version of that name
IsFirstMatch(versions, name, i) ==
    /\ i \in DOMAIN versions
    /\ versions[i].name = name
    /\ \A j \in 1..(i - 1) : versions[j].name # name

\* C15: a lookup by exact name takes the first version of the list with that
\* name and ignores the later ones: release_jira_version holds, and updates,
\* only the first match, and every other version stays as it was;
\* create_release_ticket returns the first match when it is unreleased and
\* fails when it is released, whatever versions of that name follow.
C15_FirstMatchOnly ==
    [][ /\ rj_version_to_release' # None =>
             IsFirstMatch(rj_versions, rj_version_name, The(rj_version_to_release'))
        /\ \A i \in DOMAIN rj_versions :
             ~IsFirstMatch(rj_versions, rj_version_name, i) => rj_versions'[i] = rj_versions[i]
        /\ \A c \in DOMAIN rj_calls' :
             rj_calls'[c].op = "update" =>
                 \E i \in DOMAIN rj_versions :
                     /\ IsFirstMatch(rj_versions, rj_version_name, i)
                     /\ rj_calls'[c].id = rj_versions[i].id
        /\ (/\ cr_release_name # ""
            /\ cr_pc = "versions"
            /\ Len(cr_calls') > Len(cr_calls)
            /\ cr_calls'[Len(cr_calls')].ok) =>
             \/ /\ cr_target_version' = None
                /\ \A i \in DOMAIN cr_versions :
                     IsFirstMatch(cr_versions, cr_release_name, i) => cr_versions[i].released
             \/ \E i \in DOMAIN cr_versions :
                     /\ IsFirstMatch(cr_versions, cr_release_name, i)
                     /\ ~cr_versions[i].released
                     /\ cr_target_version' = Some(cr_versions[i])
      ]_vars

\* two versions of the name, the second one released before: the first one was
\* updated, by the run's only update
C15_Witness ==
    /\ rj_pc = "done"
    /\ rj_exit = Some(0)
    /\ Len(rj_versions) = 2
    /\ rj_versions[1].name = rj_version_name
    /\ rj_versions[2].name = rj_version_name
    /\ UpdatesOf(rj_calls) = << [op |-> "update", ok |-> TRUE, id |-> 1, released |-> TRUE,
                                 releaseDate |-> Today] >>

---------------------------------------------------------------------------
(* Claims about the fix-version update of update-integration-tickets *)

\* the calls of update_sqs_fix_versions: the fetch of the SQS ticket and its update
FixVersionCalls ==
    { i \in DOMAIN it_calls :
        \/ it_calls[i].op = "update"
        \/ it_calls[i].op = "issue" /\ it_calls[i].key # ReleaseTicketKey }

\* C18: when a call of the fix-version update fails, the run still exits 0 and
\* prints sqs_ticket_key and sc_ticket_key with the keys found; and without a
\* fix-version list (none, or an empty one) no call of the update is made.
C18_FixVersionFailureIsNotFatal ==
    /\ (\E i \in FixVersionCalls : ~it_calls[i].ok) =>
          /\ it_exit = Some(0)
          /\ sqs_ticket_key # None
          /\ sc_ticket_key # None
          /\ it_stdout = << <<"sqs_ticket_key", The(sqs_ticket_key)>>,
                            <<"sc_ticket_key", The(sc_ticket_key)>> >>
          /\ \E i \in LinksInto(<<"S", "O", "N", "A", "R">>) :
                 OtherEnd(it_links[i]) = it_stdout[1][2]
          /\ \E i \in LinksInto(<<"S", "C">>) :
                 OtherEnd(it_links[i]) = it_stdout[2][2]
    /\ it_fix_versions \in {None, Some(<<>>)} => FixVersionCalls = {}

\* the tracker refused the update of SONAR-1: a warning, exit 0, both keys printed
C18_Witness ==
    /\ it_calls # <<>>
    /\ it_calls[Len(it_calls)].op = "update"
    /\ ~it_calls[Len(it_calls)].ok
    /\ it_calls[Len(it_calls)].fixVersions = << [name |-> <<"1", ".", "0">>],
                                               [name |-> <<"1", ".", "1">>] >>
    /\ it_exit = Some(0)
    /\ it_stdout = << <<"sqs_ticket_key", <<"S", "O", "N", "A", "R", "-", "1">> >>,
                      <<"sc_ticket_key", <<"S", "C", "-", "1">> >> >>

---------------------------------------------------------------------------
(* Claims about the linking step of create-integration-ticket *)

\* the run's last call was a create_issue_link that failed
CiLinkFailed ==
    /\ ci_calls # <<>>
    /\ ci_calls[Len(ci_calls)].op = "create_issue_link"
    /\ ~ci_calls[Len(ci_calls)].ok

\* C19: when create_issue_link fails, with a JIRAError or with any other
\* exception, the run exits 0 and prints ticket_key and ticket_url of the
\* ticket that create_issue returned.
C19_LinkFailureIsNotFatal ==
    CiLinkFailed =>
        /\ ci_exit = Some(0)
        /\ \E i \in DOMAIN ci_calls :
             /\ ci_calls[i].op = "create_issue"
             /\ ci_calls[i].ok
        /\ ci_stdout = << <<"ticket_key", ci_calls[Len(ci_calls)].inwardIssue>>,
                          <<"ticket_url", "https://jira.example.com/browse/SQS-101">> >>
        /\ ci_calls[Len(ci_calls)].inwardIssue = "SQS-101"

\* the link failed with an exception that is not a JIRAError: a warning, exit 0
C19_Witness ==
    /\ CiLinkFailed
    /\ ci_stderr = << <<"An unexpected error occurred while linking tickets: ",
                        "Connection reset by peer">>,
                      <<"Warning: Ticket was created but linking failed.">> >>
    /\ ci_stdout[1] = <<"ticket_key", "SQS-101">>
    /\ ci_exit = Some(0)

---------------------------------------------------------------------------
(* Claims about the standard output of successful runs *)

\* a line of standard output of the form key=value
KeyValueLine(line) == Len(line) = 2

\* a successful run printed at least one line and only key=value lines
OutputContract(exit, stdout) ==
    exit = Some(0) =>
        /\ stdout # <<>>
        /\ \A i \in DOMAIN stdout : KeyValueLine(stdout[i])

\* C17: every run that ends with exit code 0 has written at least one line to
\* standard output, and each of its lines has the form key=value.
C17_StdoutIsKeyValue ==
    /\ \A r \in Runs : OutputContract(lb_exit[r], lb_stdout[r])
    /\ OutputContract(cv_exit, cv_stdout)
    /\ OutputContract(rc_exit, rc_stdout)
    /\ OutputContract(it_exit, it_stdout)
    /\ OutputContract(ut_exit, ut_stdout)
    /\ OutputContract(cr_exit, cr_stdout)
    /\ OutputContract(ci_exit, ci_stdout)

---------------------------------------------------------------------------
(* Claims about the credentials of a run *)

\* JIRA_USER or JIRA_TOKEN is unset or empty
JiraCredentialMissing(env) ==
    \/ env.JIRA_USER \in {None, Some("")}
    \/ env.JIRA_TOKEN \in {None, Some("")}

\* a run without its credential that leaves the credential step has exited
\* with status 1 and has made no remote call
FatalBeforeAnyCall(missing, leaves, exit_after, calls_after) ==
    (missing /\ leaves) => (exit_after = Some(1) /\ calls_after = <<>>)

\* C16: in every script, a run whose required credential variable is unset or
\* empty ends its credential step with exit code 1, and it has made no remote
\* call by then.
C16_MissingCredentialIsFatal ==
    [][ /\ \A r \in Runs :
             FatalBeforeAnyCall(~lb_token[r], lb_pc[r] = "token" /\ lb_pc'[r] # "token",
                                lb_exit'[r],
                                SelectSeq(wire', LAMBDA request : request.run = r))
        /\ FatalBeforeAnyCall(ns_token \in {None, Some("")},
                              ns_pc = "token" /\ ns_pc' # "token", ns_exit', ns_calls')
        /\ FatalBeforeAnyCall(~cv_creds, cv_pc = "connect" /\ cv_pc' # "connect",
                              cv_exit', cv_calls')
        /\ FatalBeforeAnyCall(~rc_creds, rc_pc = "connect" /\ rc_pc' # "connect",
                              rc_exit', rc_calls')
        /\ FatalBeforeAnyCall(~rj_creds, rj_pc = "connect" /\ rj_pc' # "connect",
                              rj_exit', rj_calls')
        /\ FatalBeforeAnyCall(~cr_creds, cr_pc = "connect" /\ cr_pc' # "connect",
                              cr_exit', cr_calls')
        /\ FatalBeforeAnyCall(~ci_creds, ci_pc = "connect" /\ ci_pc' # "connect",
                              ci_exit', ci_calls')
        /\ FatalBeforeAnyCall(~it_creds, it_pc = "connect" /\ it_pc' # "connect",
                              it_exit', it_calls')
        /\ FatalBeforeAnyCall(~ut_creds, ut_pc = "connect" /\ ut_pc' # "connect",
                              ut_exit', ut_calls')
        /\ FatalBeforeAnyCall(JiraCredentialMissing(gn_env),
                              gn_pc = "connect" /\ gn_pc' # "connect", gn_exit', gn_calls')
        /\ FatalBeforeAnyCall(JiraCredentialMissing(fn_env),
                              fn_pc = "connect" /\ fn_pc' # "connect", fn_exit', fn_calls')
        /\ FatalBeforeAnyCall(JiraCredentialMissing(tc_env),
                              tc_pc = "connect" /\ tc_pc' # "connect", tc_exit', tc_calls')
        /\ FatalBeforeAnyCall(JiraCredentialMissing(ga_env),
                              ga_pc = "connect" /\ ga_pc' # "connect", ga_exit', ga_calls')
      ]_vars

\* SLACK_TOKEN is set to the empty string: notify_slack has exited with status
\* 1, its message names the variable, and nothing was posted
C16_Witness ==
    /\ ns_token = Some("")
    /\ ns_pc = "done"
    /\ ns_exit = Some(1)
    /\ ns_stderr = << <<"Error: ", "SLACK_TOKEN", " environment variable must be set.">> >>
    /\ ns_calls = <<>>

---------------------------------------------------------------------------
(* Claims about entities the remote does not know *)

\* the calls that fetch a project, its versions or a ticket, or search issues
LookupOps == {"project", "project_versions", "issue", "search_issues"}

\* a lookup the tracker answered with 404
NotFoundAnswer(call) ==
    /\ call.op \in LookupOps
    /\ "error" \in DOMAIN call
    /\ "status_code" \in DOMAIN call.error
    /\ call.error.status_code = 404

\* the step has made a lookup that was answered with 404
NotFoundReported(calls_before, calls_after) ==
    \E i \in (Len(calls_before) + 1)..Len(calls_after) : NotFoundAnswer(calls_after[i])

\* one of the lines the step has written has the key among its pieces
NamedInNewLines(stderr_before, stderr_after, key) ==
    \E i \in (Len(stderr_before) + 1)..Len(stderr_after) :
        \E j \in DOMAIN stderr_after[i] : stderr_after[i][j] = key

\* the run has ended with sys.exit(1) after a message that names the key
FatalNamingKey(pc_after, exit_after, stderr_before, stderr_after, key) ==
    /\ pc_after = "done"
    /\ exit_after = Some(1)
    /\ NamedInNewLines(stderr_before, stderr_after, key)

\* the release ticket of update_integration_tickets.py is not found
ItReleaseTicketNotFound ==
    /\ NotFoundReported(it_calls, it_calls')
    /\ it_calls'[Len(it_calls')].key = ReleaseTicketKey

\* the SQS ticket of update_integration_tickets.py is not found
ItSqsTicketNotFound ==
    /\ NotFoundReported(it_calls, it_calls')
    /\ it_calls'[Len(it_calls')].key # ReleaseTicketKey

\* the lookups whose except branch ends the run: the versions of
\* release_and_create_jira_version.py, create_release_ticket.py and the two
\* tools, the ticket and the project of create_integration_ticket.py, the
\* release ticket of update_integration_tickets.py, the ticket of
\* update_release_ticket.py, and the lookups of the two release-notes scripts
HandledLookupsAreFatal ==
    /\ NotFoundReported(rc_calls, rc_calls')
         => FatalNamingKey(rc_pc', rc_exit', rc_stderr, rc_stderr', ProjectKey)
    /\ NotFoundReported(cr_calls, cr_calls')
         => FatalNamingKey(cr_pc', cr_exit', cr_stderr, cr_stderr', ProjectKey)
    /\ NotFoundReported(ci_calls, ci_calls')
         => FatalNamingKey(ci_pc', ci_exit', ci_stderr, ci_stderr',
                           IF ci_calls'[Len(ci_calls')].op = "issue"
                           THEN LinkedTicketKey ELSE ProjectKey)
    /\ ItReleaseTicketNotFound
         => /\ it_pc' = "done"
            /\ it_exit' = Some(1)
            /\ it_stderr'[Len(it_stderr')].what = "Could not retrieve issue"
            /\ it_stderr'[Len(it_stderr')].ticket = ReleaseTicketKey
    /\ NotFoundReported(ut_calls, ut_calls')
         => FatalNamingKey(ut_pc', ut_exit', ut_stderr, ut_stderr', UtTicketKey)
    /\ NotFoundReported(gn_calls, gn_calls')
         => FatalNamingKey(gn_pc', gn_exit', gn_stderr, gn_stderr', ProjectKey)
    /\ NotFoundReported(fn_calls, fn_calls')
         => FatalNamingKey(fn_pc', fn_exit', fn_stderr, fn_stderr', ProjectKey)
    /\ NotFoundReported(tc_calls, tc_calls')
         => FatalNamingKey(tc_pc', tc_exit', tc_stderr, tc_stderr', ProjectKey)
    /\ NotFoundReported(ga_calls, ga_calls')
         => FatalNamingKey(ga_pc', ga_exit', ga_stderr, ga_stderr', ProjectKey)

\* the run r of lock_branch.py has been told that the branch has no
\* protection record
ProtectionNotFound(r) ==
    /\ Len(wire') = Len(wire) + 1
    /\ wire'[Len(wire')] = [run |-> r, method |-> "GET", status |-> 404]

\* C20 as stated: in every script, when the remote reports that the project,
\* ticket, version or branch-protection record does not exist, the run ends with
\* exit code 1 after a message naming the missing entity; it neither continues
\* nor ends with an unhandled exception.
C20_NotFoundIsFatal ==
    [][ /\ HandledLookupsAreFatal
        /\ \A r \in Runs :
             ProtectionNotFound(r) => (lb_pc'[r] = "done" /\ lb_exit'[r] = Some(1))
        /\ NotFoundReported(cv_calls, cv_calls')
             => FatalNamingKey(cv_pc', cv_exit', cv_stderr, cv_stderr', ProjectKey)
        /\ NotFoundReported(rj_calls, rj_calls')
             => FatalNamingKey(rj_pc', rj_exit', rj_stderr, rj_stderr', ProjectKey)
        /\ ItSqsTicketNotFound
             => (it_pc' = "done" /\ it_exit' = Some(1))
      ]_vars

\* the step has ended the run with the traceback of an exception nothing caught
EndsUnhandled(pc_after, exit_after, stderr_after) ==
    /\ pc_after = "raised"
    /\ exit_after = Some(1)
    /\ stderr_after[Len(stderr_after)] = <<"Traceback (most recent call last):">>

\* C20 (amended): a project, ticket or version lookup that the remote answers
\* with "not found" ends the run with exit code 1 after a message naming the
\* missing key, except that lock_branch.py takes an absent protection record
\* for an unlocked branch and goes on, that update_integration_tickets.py only
\* warns when the SQS ticket of the fix-version push is not found and ends with
\* exit code 0, and that release_jira_version.py and the find_existing_version
\* of create_jira_version.py fetch the project outside any handler, so that the
\* run ends with the unhandled JIRAError.
C20_NotFoundIsFatalWhereHandled ==
    [][ /\ HandledLookupsAreFatal
        /\ \A r \in Runs :
             ProtectionNotFound(r)
               => /\ lb_pc'[r] = "compare"
                  /\ lb_exit'[r] = None
                  /\ previous_locked'[r] = Some(FALSE)
        /\ NotFoundReported(cv_calls, cv_calls')
             => EndsUnhandled(cv_pc', cv_exit', cv_stderr')
        /\ NotFoundReported(rj_calls, rj_calls')
             => EndsUnhandled(rj_pc', rj_exit', rj_stderr')
        /\ ItSqsTicketNotFound
             => /\ it_pc' = "done"
                /\ it_exit' = Some(0)
                /\ it_stderr'[Len(it_stderr')] =
                     [what |-> "Could not update fix versions",
                      ticket |-> The(sqs_ticket_key)]
      ]_vars

\* get_jira_release_notes.py has asked for the versions of a project the
\* tracker does not know: it has ended with status 1 and its last message
\* names the project
C20_Witness ==
    /\ gn_pc = "done"
    /\ gn_exit = Some(1)
    /\ gn_calls # <<>>
    /\ gn_calls[Len(gn_calls)] =
         [op |-> "project_versions", ok |-> FALSE, error |-> ProjectNotFoundError]
    /\ gn_stderr # <<>>
    /\ gn_stderr[Len(gn_stderr)] = <<"Error: Project with key '", ProjectKey, "' not found.">>

---------------------------------------------------------------------------
(* Claims about exceptions that are not API errors *)

\* the step has raised an exception that is not a JIRAError
RaisesUnexpected == Len(unexpected') = Len(unexpected) + 1

\* where the script stands after the step, and the last line it has written
AfterStep(script) ==
    CASE script = "cv" -> [pc |-> cv_pc', exit |-> cv_exit', stderr |-> cv_stderr']
      [] script = "rc" -> [pc |-> rc_pc', exit |-> rc_exit', stderr |-> rc_stderr']
      [] script = "it" -> [pc |-> it_pc', exit |-> it_exit', stderr |-> it_stderr']
      [] script = "ut" -> [pc |-> ut_pc', exit |-> ut_exit', stderr |-> ut_stderr']
      [] script = "rj" -> [pc |-> rj_pc', exit |-> rj_exit', stderr |-> rj_stderr']
      [] script = "cr" -> [pc |-> cr_pc', exit |-> cr_exit', stderr |-> cr_stderr']
      [] script = "ci" -> [pc |-> ci_pc', exit |-> ci_exit', stderr |-> ci_stderr']
      [] script = "fn" -> [pc |-> fn_pc', exit |-> fn_exit', stderr |-> fn_stderr']
      [] script = "gn" -> [pc |-> gn_pc', exit |-> gn_exit', stderr |-> gn_stderr']
      [] script = "tc" -> [pc |-> tc_pc', exit |-> tc_exit', stderr |-> tc_stderr']
      [] script = "ga" -> [pc |-> ga_pc', exit |-> ga_exit', stderr |-> ga_stderr']

LastLine(lines) == lines[Len(lines)]

\* the exception was caught: a message that begins as given, and sys.exit(1)
ConvertedToExit(after, beginning) ==
    /\ after.pc = "done"
    /\ after.exit = Some(1)
    /\ after.stderr # <<>>
    /\ LastLine(after.stderr)[1] = beginning

\* the exception left main(): a traceback and a non-zero status
Propagated(after) ==
    /\ after.pc = "raised"
    /\ after.exit = Some(1)

\* C21 as stated: an exception that is not a tracker API error is converted to
\* a message and exit 1 only while the authenticated client is being constructed,
\* and there it always is; raised by any later step of any script, it is not
\* caught and the process ends with the unhandled exception.
C21_CaughtAtConnectionOnly ==
    [][ RaisesUnexpected =>
          LET event == LastLine(unexpected')
              after == AfterStep(event.script)
          IN  IF event.step = "JIRA"
              THEN ConvertedToExit(after,
                                   "An unexpected error occurred during JIRA connection: ")
              ELSE Propagated(after)
      ]_vars

\* C21 (amended): in the scripts that talk to the tracker, an exception that is
\* not a tracker API error, raised while the authenticated client is being
\* constructed, is converted to a message and exit 1, except in
\* update_integration_tickets.py, whose get_jira_instance catches JIRAError only
\* and lets it pass; raised by a later remote call it is not caught and the
\* process ends with the unhandled exception, except in
\* create_integration_ticket.py, where validate_linked_ticket converts it to a
\* message and exit 1 and link_tickets to a warning after which the run goes on
\* to exit 0.
C21_CaughtWhereHandled ==
    [][ RaisesUnexpected =>
          LET event == LastLine(unexpected')
              after == AfterStep(event.script)
          IN  IF event.step = "JIRA"
              THEN IF event.script = "it"
                   THEN Propagated(after)
                   ELSE ConvertedToExit(after,
                            "An unexpected error occurred during JIRA connection: ")
              ELSE IF event.script = "ci" /\ event.step = "issue"
              THEN ConvertedToExit(after,
                       "An unexpected error occurred while validating linked ticket: ")
              ELSE IF event.script = "ci" /\ event.step = "create_issue_link"
              THEN /\ after.pc = "done"
                   /\ after.exit = Some(0)
                   /\ LastLine(after.stderr) =
                        <<"Warning: Ticket was created but linking failed.">>
              ELSE Propagated(after)
      ]_vars

\* the constructor of the client of create_jira_version.py has raised a
\* connection error: the message is written and the run has ended with status 1
C21_Witness ==
    /\ unexpected = << Raised("cv", "JIRA", OtherException) >>
    /\ cv_pc = "done"
    /\ cv_exit = Some(1)
    /\ cv_stderr = << <<"An unexpected error occurred during JIRA connection: ",
                        "Connection reset by peer">> >>
    /\ cv_calls = <<>>

---------------------------------------------------------------------------
(* Claims about the issue type of the integration ticket *)

\* the positions of the types of that name, letter case aside
TypesNamed(issue_types, name) == { i \in DOMAIN issue_types : lower(issue_types[i]) = name }

First(positions) == CHOOSE i \in positions : \A j \in positions : i <= j

\* Task when the project offers it, else Story, else the first type listed
PreferredIssueType(issue_types) ==
    IF TypesNamed(issue_types, "task") # {}
    THEN issue_types[First(TypesNamed(issue_types, "task"))]
    ELSE IF TypesNamed(issue_types, "story") # {}
    THEN issue_types[First(TypesNamed(issue_types, "story"))]
    ELSE issue_types[1]

\* C22: create_integration_ticket chooses Task if the project offers it,
\* otherwise Story if the project offers it, otherwise the first issue type the
\* project lists (names compared without regard to case); when the project
\* lists no issue type the run exits 1 and no ticket is created.
C22_TaskThenStoryThenFirst ==
    /\ ci_issue_type # None => The(ci_issue_type) = PreferredIssueType(ci_issue_types)
    /\ (ci_issue_types = <<>> /\ ci_pc = "done" /\ unexpected = <<>>) =>
          /\ ci_exit = Some(1)
          /\ \A i \in DOMAIN ci_calls : ci_calls[i].op # "create_issue"

---------------------------------------------------------------------------
(* Claims about a version that exists already *)

\* the step is a creation the tracker refused as "already exists", followed by
\* the lookup of the project, which was answered
RefusedAsExisting ==
    /\ cv_pc = "create"
    /\ Len(cv_calls') = Len(cv_calls) + 2
    /\ cv_calls'[Len(cv_calls')].op = "project"
    /\ "error" \notin DOMAIN cv_calls'[Len(cv_calls')]

\* the step is a creation the tracker refused for another reason
RefusedOtherwise ==
    /\ cv_pc = "create"
    /\ Len(cv_calls') = Len(cv_calls) + 1
    /\ cv_versions' = cv_versions

\* the two lines of a version on standard output
VersionLines(version) ==
    << <<"new_version_id", version.id>>, <<"new_version_name", version.name>> >>

\* C23: when creation fails because the version exists already, the version is
\* looked up by name in the project: found, the run exits 0 with the
\* new_version_id and new_version_name of the existing version; not found, it
\* exits 1 and prints neither; any other failure of the creation exits 1; and
\* every run that exits 0 has printed one new_version_id line and one
\* new_version_name line.
C23_ExistingVersionIsReported ==
    [][ /\ RefusedAsExisting =>
             LET name == cv_calls'[Len(cv_calls) + 1].name
                 named == { i \in DOMAIN cv_versions : cv_versions[i].name = name }
             IN  IF named # {}
                 THEN /\ cv_exit' = Some(0)
                      /\ \E i \in named : cv_stdout' = VersionLines(cv_versions[i])
                 ELSE /\ cv_exit' = Some(1)
                      /\ cv_stdout' = <<>>
        /\ RefusedOtherwise => (cv_exit' = Some(1) /\ cv_stdout' = <<>>)
        /\ cv_exit' = Some(0) =>
             /\ Len(cv_stdout') = 2
             /\ cv_stdout'[1][1] = "new_version_id"
             /\ cv_stdout'[2][1] = "new_version_name"
      ]_vars

\* the project lists 9.0 and then 9: asked to create 9, the tracker says that
\* it exists, and the run ends with status 0 and the id of the second version
C23_Witness ==
    /\ Len(cv_versions) = 2
    /\ cv_versions[2].name = <<"9">>
    /\ cv_versions[1].name # <<"9">>
    /\ cv_calls # <<>>
    /\ cv_calls[Len(cv_calls)].op = "project"
    /\ cv_exit = Some(0)
    /\ cv_stdout = << <<"new_version_id", cv_versions[2].id>>, <<"new_version_name", <<"9">> >> >>

---------------------------------------------------------------------------
(* Claims about parse_bool *)

\* the words the documentation of --freeze and the tests take for true
WordsForTrue == { <<"t","r","u","e">>, <<"1">>, <<"y","e","s">> }

\* a string that is a word, letter case aside
SpelledAs(s, w) ==
    /\ Len(s) = Len(w)
    /\ \A i \in 1..Len(w) : s[i] \in {w[i], Capital(w[i])}

\* the boolean true, or a string that is one of the words for true
MeansTrue(value) ==
    \/ value.type = "bool" /\ value.value
    \/ value.type = "str" /\ \E w \in WordsForTrue : SpelledAs(value.value, w)

\* the run has parsed its --freeze argument
HasParsed(r) == lb_pc[r] # "parse"

\* the step is an update request of the run that GitHub accepted
UpdateAccepted(r) ==
    /\ Len(wire') = Len(wire) + 1
    /\ wire'[Len(wire')].run = r
    /\ wire'[Len(wire')].method = "PUT"
    /\ wire'[Len(wire')].status \in {200, 201}

ParsedAsClaimed ==
    /\ pb_result # None => The(pb_result) = MeansTrue(pb_value)
    /\ \A r \in Runs :
         HasParsed(r) =>
           /\ freeze[r] = MeansTrue(PyStr(freeze_arg[r]))
           /\ lb_stdout[r] # <<>> =>
                lb_stdout[r][2] = <<"current_state", BoolStr(MeansTrue(PyStr(freeze_arg[r])))>>

\* C24: parse_bool returns true exactly for the boolean true and for a string
\* that is "true", "1" or "yes" in any letter case, and false for every
\* other string ("false", "0" and "no" among them), always returning a
\* value; a run of lock-branch whose --freeze is any other string reports
\* current_state=false and every update it gets accepted leaves the branch
\* unlocked.
C24_ParseBoolTrueWordsOnly ==
    [][ /\ ParsedAsClaimed'
        /\ \A r \in Runs :
             (UpdateAccepted(r) /\ ~MeansTrue(PyStr(freeze_arg[r]))) =>
                 ~is_branch_locked(remote') ]_vars

\* a run given --freeze on found the branch locked, unlocked it and
\* reported current_state=false
C24_Witness ==
    \E r \in Runs :
        /\ freeze_arg[r] = <<"o","n">>
        /\ lb_exit[r] = Some(0)
        /\ lb_stdout[r][1] = <<"previous_state", "true">>
        /\ lb_stdout[r][2] = <<"current_state", "false">>
        /\ \E i \in 1..Len(wire) : wire[i].run = r /\ wire[i].method = "PUT"

---------------------------------------------------------------------------
(* Claims about the calls of a run that change the remote state *)

\* the logs of the scripts that talk to Jira or Slack, one run each
CallLogs ==
    [ cv |-> cv_calls, rc |-> rc_calls, it |-> it_calls, ut |-> ut_calls,
      rj |-> rj_calls, cr |-> cr_calls, ci |-> ci_calls, ns |-> ns_calls,
      fn |-> fn_calls, gn |-> gn_calls, tc |-> tc_calls, ga |-> ga_calls ]

\* create, update and release, assign, transition, link, and the message
\* notify-slack posts
MutatingOps ==
    { "create_version", "create_issue", "update", "assign_issue", "transition_issue",
      "create_issue_link", "chat.postMessage" }

IsMutation(call) == call.op \in MutatingOps

\* the state-changing operations of a log, in call order
Mutations(log) ==
    LET made == SelectSeq(log, IsMutation)
    IN  [i \in 1..Len(made) |-> made[i].op]

\* the update requests a run of lock-branch has sent
Puts(r) == { i \in 1..Len(wire) : wire[i].run = r /\ wire[i].method = "PUT" }

\* an operation is called again only after it succeeded, and for something else
NoRepeatAfterFailure(log) ==
    \A i, j \in 1..Len(log) :
        (i < j /\ log[i].op = log[j].op) =>
            /\ "ok" \in DOMAIN log[i] /\ log[i].ok
            /\ "key" \in DOMAIN log[i] /\ "key" \in DOMAIN log[j]
            /\ log[i].key # log[j].key

\* C25 as stated: a run makes at most one state-changing remote call, and
\* repeats no remote call after a failure.
C25_AtMostOneMutation ==
    /\ \A k \in DOMAIN CallLogs : Len(Mutations(CallLogs[k])) <= 1
    /\ \A r \in Runs : Cardinality(Puts(r)) <= 1
    /\ \A k \in DOMAIN CallLogs : NoRepeatAfterFailure(CallLogs[k])

\* C25: a run makes each kind of state-changing remote call at most once:
\* at most one such call in all, except that release-and-create releases a
\* version and then creates the next, update-release-ticket assigns the
\* ticket and then transitions it, and create-integration-ticket creates the
\* ticket and then links it; and no remote call is repeated after a failure.
C25_EachMutationOnce ==
    /\ \A k \in DOMAIN CallLogs \ {"rc", "ut", "ci"} : Len(Mutations(CallLogs[k])) <= 1
    /\ Mutations(rc_calls) \in { <<>>, <<"update">>, <<"create_version">>,
                                 <<"update", "create_version">> }
    /\ Mutations(ut_calls) \in { <<>>, <<"assign_issue">>, <<"transition_issue">>,
                                 <<"assign_issue", "transition_issue">> }
    /\ Mutations(ci_calls) \in { <<>>, <<"create_issue">>,
                                 <<"create_issue", "create_issue_link">> }
    /\ \A r \in Runs : Cardinality(Puts(r)) <= 1
    /\ \A k \in DOMAIN CallLogs : NoRepeatAfterFailure(CallLogs[k])

\* a run of release-and-create that released the version and created the next
C25_Witness ==
    /\ rc_exit = Some(0)
    /\ Mutations(rc_calls) = <<"update", "create_version">>

---------------------------------------------------------------------------
(* Claims about the two dialects of the release notes *)

\* a line that begins with the given piece
BeginsWith(line, piece) == Len(line) > 0 /\ line[1] = piece

\* a Markdown line in the syntax of Jira markup: the title, a heading, the
\* line of an issue, and any other line as it is
AsJiraMarkup(line) ==
    CASE BeginsWith(line, "# Release notes - ") ->
             [i \in 1..Len(line) |-> IF i = 1 THEN "h1. Release notes - " ELSE line[i]]
      [] BeginsWith(line, "### ") ->
             [i \in 1..Len(line) |-> IF i = 1 THEN "h3. " ELSE line[i]]
      [] BeginsWith(line, "[") ->
             [i \in 1..Len(line) |-> IF i = 3 THEN "|"
                                     ELSE IF i = Len(line) - 1 THEN "] "
                                     ELSE line[i]]
      [] OTHER -> line

\* what a line of the notes says: the name of a section, or the key, the
\* link and the summary of an issue; nothing for any other line
OutlineEntry(line, heading, link_open) ==
    IF BeginsWith(line, heading) THEN << [section |-> line[2]] >>
    ELSE IF BeginsWith(line, "[") /\ Len(line) >= 5 /\ line[3] = link_open
         THEN << [key |-> line[2], link |-> SubSeq(line, 4, Len(line) - 2),
                  summary |-> line[Len(line)]] >>
         ELSE <<>>

\* the sections of the notes and the issues under each, in the order written
RECURSIVE Outline(_, _, _)
Outline(notes, heading, link_open) ==
    IF notes = <<>> THEN <<>>
    ELSE OutlineEntry(Head(notes), heading, link_open)
         \o Outline(Tail(notes), heading, link_open)

BothDialectsWritten == markdown_notes # None /\ jira_markup_notes # None

\* C26: for the same issues, server URL, project name, version and category
\* order, the Markdown notes and the Jira markup notes hold the same
\* sections in the same order and the same issue keys, links and summaries
\* in the same order within each; line for line they differ only in the
\* syntax of the title and the headings and in the syntax of the links.
C26_DialectsDifferInSyntaxOnly ==
    BothDialectsWritten =>
        LET md == The(markdown_notes)
            jm == The(jira_markup_notes)
        IN  /\ Outline(md, "### ", "](") = Outline(jm, "h3. ", "|")
            /\ Len(md) = Len(jm)
            /\ \A i \in 1..Len(md) : AsJiraMarkup(md[i]) = jm[i]

\* both dialects written for issues that fill two sections
C26_Witness ==
    /\ BothDialectsWritten
    /\ \E i, j \in 1..Len(The(markdown_notes)) :
          /\ i < j
          /\ BeginsWith(The(markdown_notes)[i], "### ")
          /\ BeginsWith(The(markdown_notes)[j], "### ")
    /\ Len(Outline(The(jira_markup_notes), "h3. ", "|")) > 3

---------------------------------------------------------------------------
(* Claims about the read of the branch protection *)

\* the step is the answer to the protection read of the run
ReadAnswered(r) ==
    /\ Len(wire') = Len(wire) + 1
    /\ wire'[Len(wire')].run = r
    /\ wire'[Len(wire')].method = "GET"

\* the reads of the run that were answered neither 200 nor 404
FailedReads(r) ==
    { i \in 1..Len(wire) : /\ wire[i].run = r
                           /\ wire[i].method = "GET"
                           /\ wire[i].status \notin {200, 404} }

\* the run goes on as for an unlocked branch
ContinuesUnlocked(r) ==
    /\ previous_locked'[r] = Some(FALSE)
    /\ lb_pc'[r] = "compare"
    /\ lb_exit'[r] = None

\* C27: a protection read answered 404 is taken for a branch without
\* protection, which is unlocked, and the run goes on; so is a record
\* without a lock_branch entry; a read answered anything else than 200 or
\* 404 ends the run with exit 1 and the run sends no update request.
C27_AbsentRecordIsUnlocked ==
    [][ \A r \in Runs :
          /\ ReadAnswered(r) =>
               LET status == wire'[Len(wire')].status
               IN  /\ status = 404 => lb_read'[r] = None /\ ContinuesUnlocked(r)
                   /\ (status = 200 /\ "lock_branch" \notin DOMAIN The(lb_read'[r])) =>
                          ContinuesUnlocked(r)
                   /\ status \notin {200, 404} => lb_exit'[r] = Some(1) /\ lb_pc'[r] = "done"
          /\ FailedReads(r)' # {} => lb_exit'[r] = Some(1) /\ Puts(r)' = {} ]_vars

\* one run was answered 404, went on and locked the branch; the other was
\* answered 500 and ended with exit 1
C27_Witness ==
    \E r, q \in Runs :
        /\ \E i \in 1..Len(wire) : wire[i] = [run |-> r, method |-> "GET", status |-> 404]
        /\ \E i \in 1..Len(wire) : wire[i] = [run |-> r, method |-> "PUT", status |-> 201]
        /\ lb_exit[r] = Some(0)
        /\ \E i \in 1..Len(wire) : wire[i] = [run |-> q, method |-> "GET", status |-> 500]
        /\ lb_exit[q] = Some(1)

---------------------------------------------------------------------------
(* Claims about the result lines of a run that fails *)

\* the exit code and the result lines of the one run of each script that
\* writes result lines: key=value lines and heredoc blocks
ResultsOf ==
    [ cv |-> [exit |-> cv_exit, stdout |-> cv_stdout],
      rc |-> [exit |-> rc_exit, stdout |-> rc_stdout],
      it |-> [exit |-> it_exit, stdout |-> it_stdout],
      ut |-> [exit |-> ut_exit, stdout |-> ut_stdout],
      cr |-> [exit |-> cr_exit, stdout |-> cr_stdout],
      ci |-> [exit |-> ci_exit, stdout |-> ci_stdout],
      fn |-> [exit |-> fn_exit, stdout |-> fn_stdout],
      gn |-> [exit |-> gn_exit, stdout |-> gn_stdout],
      ga |-> [exit |-> ga_exit, stdout |-> ga_stdout] ]

\* the update request of the run was refused
UpdateRefused(r) ==
    \E i \in 1..Len(wire) : /\ wire[i].run = r
                            /\ wire[i].method = "PUT"
                            /\ wire[i].status \notin {200, 201}

\* C28: a run that ends with exit code 1 has written no result line to
\* standard output, whichever script it is a run of; a run of lock-branch
\* whose update request was refused has written none of previous_state,
\* current_state and branch.
C28_NoResultLineOnFailure ==
    /\ \A k \in DOMAIN ResultsOf :
         ResultsOf[k].exit = Some(1) => ResultsOf[k].stdout = <<>>
    /\ \A r \in Runs :
         /\ lb_exit[r] = Some(1) => lb_stdout[r] = <<>>
         /\ UpdateRefused(r) => lb_exit[r] = Some(1) /\ lb_stdout[r] = <<>>

\* a run of lock-branch whose update was refused, ended with exit 1 and
\* nothing on standard output, next to one that wrote its three lines
C28_Witness ==
    \E r, q \in Runs :
        /\ UpdateRefused(r)
        /\ lb_exit[r] = Some(1)
        /\ lb_stdout[r] = <<>>
        /\ lb_exit[q] = Some(0)
        /\ Len(lb_stdout[q]) = 3

---------------------------------------------------------------------------
(* Claims about the order of the steps of create-integration-ticket *)

\* neither --ticket-summary nor both of --project-name and --release-version
InsufficientSummaryInputs(args) ==
    /\ args.ticket_summary = ""
    /\ args.project_name = "" \/ args.release_version = ""

\* the positions of the calls of an operation in the log of the run
CiCallsOf(op) == { i \in 1..Len(ci_calls) : ci_calls[i].op = op }

\* some call of the operation before position j succeeded
CiSucceededBefore(op, j) == \E i \in CiCallsOf(op) : i < j /\ ci_calls[i].ok

LinkedTicketNotFetched == \E i \in CiCallsOf("issue") : ~ci_calls[i].ok

\* C29: the client is constructed only after the summary check, the
\* integration ticket is created only after the linked ticket was fetched,
\* and the link only after the integration ticket was created; with
\* insufficient summary inputs the run makes no remote call and ends with
\* exit 1, and when the linked ticket cannot be fetched it creates no ticket
\* and ends with exit 1.
C29_CheckFetchCreateLink ==
    /\ ci_pc = "summary" => ci_calls = <<>> /\ unexpected = <<>>
    /\ \A j \in CiCallsOf("issue") : CiSucceededBefore("server_info", j)
    /\ \A j \in CiCallsOf("create_issue") : CiSucceededBefore("issue", j)
    /\ \A j \in CiCallsOf("create_issue_link") : CiSucceededBefore("create_issue", j)
    /\ InsufficientSummaryInputs(ci_args) =>
          /\ ci_calls = <<>> /\ unexpected = <<>>
          /\ ci_pc # "summary" => ci_exit = Some(1)
    /\ LinkedTicketNotFetched =>
          /\ CiCallsOf("create_issue") = {}
          /\ CiCallsOf("create_issue_link") = {}
          /\ ci_exit = Some(1)

\* the linked ticket was not found: the run ended with exit 1 after the
\* connection and the fetch, and created nothing
C29_Witness ==
    /\ ~InsufficientSummaryInputs(ci_args)
    /\ Len(ci_calls) = 2
    /\ ci_calls[1].op = "server_info"
    /\ ci_calls[2] = [op |-> "issue", ok |-> FALSE, key |-> LinkedTicketKey,
                      error |-> NotFoundError]
    /\ ci_exit = Some(1)

---------------------------------------------------------------------------
(* Claims about the issues whose type is not in the category order *)

NoRepeatedNames(category_order) ==
    \A i, j \in DOMAIN category_order : i # j => category_order[i] # category_order[j]

InOrder(issue, category_order) ==
    \E i \in DOMAIN category_order : category_order[i] = issue.issuetype

\* the lines of the notes that are the line of the issue
LinesOfIssue(notes, issue) ==
    { i \in 1..Len(notes) : BeginsWith(notes[i], "[") /\ notes[i][2] = issue.key }

\* every issue of a listed type has one line, every other issue none; with
\* no issue of a listed type the notes are the title and the end of its line
ListedIssuesOnce(notes, title) ==
    /\ \A k \in DOMAIN nt_issues :
         Cardinality(LinesOfIssue(notes, nt_issues[k])) =
             IF InOrder(nt_issues[k], nt_category_order) THEN 1 ELSE 0
    /\ (\A k \in DOMAIN nt_issues : ~InOrder(nt_issues[k], nt_category_order)) =>
           notes = << title, <<>> >>
    /\ \A i \in 1..Len(notes) : notes[i] # NoIssuesLine

\* C30: for a non-empty issue list and a category order without repeated
\* names, both dialects of the notes hold one line for each issue whose
\* type is in the order and none for any other issue; when no issue has a
\* type of the order the notes are the title line alone, and the line
\* "No issues found for this release." is not written.
C30_UnlistedTypesAreDropped ==
    (nt_issues # <<>> /\ NoRepeatedNames(nt_category_order)) =>
        /\ markdown_notes # None =>
               ListedIssuesOnce(The(markdown_notes),
                                MarkdownTitle(nt_project_name, nt_version))
        /\ jira_markup_notes # None =>
               ListedIssuesOnce(The(jira_markup_notes),
                                JiraTitle(nt_project_name, nt_version))

\* two issues, neither of a type of the order, which names two types: both
\* dialects are the title line alone
C30_Witness ==
    /\ Len(nt_issues) = 2
    /\ Len(nt_category_order) = 2
    /\ NoRepeatedNames(nt_category_order)
    /\ \A k \in DOMAIN nt_issues : ~InOrder(nt_issues[k], nt_category_order)
    /\ markdown_notes = Some(<< MarkdownTitle(nt_project_name, nt_version), <<>> >>)
    /\ jira_markup_notes = Some(<< JiraTitle(nt_project_name, nt_version), <<>> >>)

=============================================================================
